---- MODULE Spec2Model ----
(***************************************************************************)
(* The lock-free triple buffer `FlipCell<T>` of flip-cell/src/lib.rs,      *)
(* accessed through one `FlipWriter<T>` and one `FlipReader<T>`.           *)
(*                                                                         *)
(* The transported value T is modelled as a record with two fields, `a`    *)
(* and `b`, so that a mutation through `get_mut()`/`with_mut()` and a read *)
(* through `get()`/`with()` each take two separate steps and a torn value  *)
(* is something the model can produce.                                     *)
(*                                                                         *)
(* Every atomic access to `shared_state` is one step on a single word:     *)
(* the model is the interleaving (sequentially consistent) semantics of    *)
(* the two threads.                                                        *)
(***************************************************************************)
EXTENDS Integers, FiniteSets, Sequences, TLC

VARIABLES
    \* FlipCell
    data,               \* data: [UnsafeCell<T>; 3]
    shared_state,       \* shared_state: AtomicU8
    \* FlipWriter
    write_index,
    \* FlipReader
    read_index,
    is_initial,
    \* the reader thread: where it is, and the results of its last call
    rpc,                \* "idle" | "swap" | "fetched" | "read_b" | "read_done" | "panic" | "joined"
    ret,                \* what the last fetch() returned
    ra,                 \* field a, read by the first half of a get()/with()
    rval,               \* the value the last get()/with() obtained
    \* history variables
    clean,              \* clean[i]: slot i is unchanged since it was last published (or constructed)
    nth_fetch,          \* "none" | "first" | "later": which fetch() call was the last to begin
    pub_after_first,    \* a publish() happened after the first fetch() returned
    first_read,         \* the value obtained by the first read after the first fetch(),
                        \* kept until a publish() follows the first fetch()
    pub_during_fetch,   \* a publish() happened between the load and the swap of the last fetch()
    fetch_steps,        \* the steps the last fetch() call has taken
    fetch_swaps,        \* the atomic exchanges the last fetch() call has performed
    ever_published,     \* a publish() has completed
    \* tests::loom_flip_cell
    wpc,                \* the writer thread: "write_a" | "write_b" | "publish" | "done"
    wx,                 \* the writer thread's loop variable x
    iter,               \* the number of iterations the reader's loop has completed
    last_seen,
    npub,               \* the number of publish() calls completed
    lin_npub,           \* npub when the last fetch() took effect
    prev_lin_npub,      \* npub when the fetch() before that took effect
    nlin,               \* how many fetch() calls have taken effect (0, 1, 2 = two or more)
    seen,               \* the values the reader's loop has read
    skipped,            \* values published strictly inside a window between two fetches, bar the last
    \* FlipCell::new3
    ctor,               \* the arguments of the constructor: <<shared_v, writer_v, reader_v>>
    \* the encodings of the shared word (lib.rs) and of SpectrumStatus (sync.rs)
    atom_pc,            \* "none" | "start" | "packed" | "unpacked"
    atom_in,            \* the value to encode: [kind, index, flag]
    atom_repr,          \* its representation: u8 for "SharedState", u16 for "SpectrumStatus"
    atom_overflow,      \* computing the representation overflowed its type
    atom_out,           \* the value decoded from atom_repr
    \* sync.rs: SpectrumCell, SpectrumWriter, SpectrumReader and their two threads
    sp_data,            \* data: [UnsafeCell<SpectrumFrame>; 3], each frame one value
    sp_got,             \* the frame the reader's last get() saw, NoFrame before the first
    sp_status,          \* status: Atomic<SpectrumStatus>, as its u16 representation
    sp_write_index,
    sp_read_index,
    sp_is_initial,
    sp_rpc,             \* the reader thread: "idle" | "swap" | "fetched" | "panic"
    sp_fetch_ret,       \* what the last fetch() returned
    sp_publish_ret,     \* what the last publish() returned
    sp_last_pub,        \* the slot the last publish() published, NoSlot before the first
    sp_npub,            \* publish() calls so far: 0, 1, 2 = two or more
    \* the Arc<FlipCell<T>> shared by the two handles
    arc_strong,         \* the Arc's strong count
    arc_freed,          \* the FlipCell (data and shared_state) has been dropped
    writer_alive,       \* the FlipWriter has not been dropped
    reader_alive,       \* the FlipReader has not been dropped
    arc_uaf,            \* an operation has acted on a dropped FlipCell
    arc_last_pub,       \* the value the last publish() published, None before the first
    arc_fetch_after,    \* the last fetch() began after the writer was dropped
    \* happens-before between the two threads, for every choice of the two swaps' orderings
    hb,                 \* hb[<<publish's ordering, fetch's ordering>>]: see HbInit
    hb_written,         \* hb_written[i]: the writer has stored to slot i
    hb_was_read,        \* hb_was_read[i]: the reader has read slot i
    hb_read_written,    \* the reader has read a slot the writer had stored to
    hb_wrote_read,      \* the writer has stored to a slot the reader had read
    \* which handle released each slot, and where the last published value is
    own_origin,         \* own_origin[i]: "new3" | "writer" | "reader", who put slot i in flight last
    own_last_pub,       \* the slot the last publish() published, NoSlot before the first
    \* a writer that stops publishing
    del_stopped,        \* the writer has made its last publish() call
    del_delivered,      \* since the last publish(), a fetch() returned true and the read
                        \* after it was of the slot that publish() published
    \* sync2.rs: FlipCell, FlipWriter<Ptr>, FlipReader<Ptr> and their two threads
    s2_kind,            \* "cell": no handles | "arc": ArcWriter/ArcReader | "ref": RefWriter/RefReader
                        \* | "dropped": the Arc's handles are gone and the cell with them
    s2_data,            \* data: [UnsafeCell<T>; 3], each T one value
    s2_shared_state,    \* shared_state: AtomicU8
    s2_write_index,     \* NoSlot while there is no FlipWriter
    s2_read_index,      \* NoSlot while there is no FlipReader
    s2_is_initial,
    s2_rpc,             \* the reader thread: "idle" | "swap" | "fetched" | "panic"
    s2_ret,             \* what the last fetch() returned
    s2_got,             \* what the reader's last get() saw, NoFrame before the first
    s2_prev_word,       \* shared_state as into_arc() / get_ref() last found it
    \* src/main.rs: the handoff from the audio callback to the redraw handler
    NEXT_FFT,           \* static AtomicOptionBox<FftVec>: a box, or NoBox for None
    FFT_AVAILABLE,      \* static AtomicBool
    scratch_fft,        \* the callback's Option<Box<FftVec>>
    received_fft,       \* the event loop's Option<Box<FftVec>>
    fft_box,            \* each box's contents: the number of the spectrum copied into it
    cb_pc,              \* the audio thread: "idle" | "swap" | "store" | "panic"
    main_pc,            \* the main thread: "setup" | "idle" | "store" | "swap" | "update" | "panic"
    fft_produced,       \* how many spectra the callback was given so far
    fft_shown,          \* the number of the spectrum last passed to State::update
    fft_stopped,        \* the audio stream delivers no more data
    \* src/fft.rs: FftBuffer
    fb_pc,              \* "off" | "config" (a cfg, not yet passed to new) | "built" |
                        \* "panic" (an assert or the division of new) | "unwrap" (line 125)
    fb_cfg,             \* cfg: FftConfig, its size, redraw_interval and channels
    fb_buffer,          \* buffer: RealVec, each sample the number of its frame
    fb_items,           \* spectrum_history.items
    fb_index,           \* spectrum_history.index
    fb_calls,           \* the SpectrumFrameRef of every call of fft_callback so far
    fb_frames,          \* how many whole frames push() was given so far
    \* src/main.rs: parse_fft_size
    arg_src,            \* src: &str, a sequence of characters
    arg_ret             \* what parse_fft_size returned, NoResult before the call

cellv  == <<data, shared_state, write_index, read_index, is_initial>>
rlocal == <<rpc, ret, ra, rval>>
ghost  == <<clean, nth_fetch, pub_after_first, first_read, pub_during_fetch,
            fetch_steps, fetch_swaps, ever_published>>
loomv  == <<wpc, wx, iter, last_seen, npub, lin_npub, prev_lin_npub, nlin, seen, skipped>>
\* The state of everything but the flip cell under test and its two threads.
atomv  == <<atom_pc, atom_in, atom_repr, atom_overflow, atom_out>>
syncv  == <<sp_data, sp_got, sp_status, sp_write_index, sp_read_index, sp_is_initial, sp_rpc,
            sp_fetch_ret, sp_publish_ret, sp_last_pub, sp_npub>>
arcv   == <<arc_strong, arc_freed, writer_alive, reader_alive, arc_uaf,
            arc_last_pub, arc_fetch_after>>
hbv    == <<hb, hb_written, hb_was_read, hb_read_written, hb_wrote_read>>
ownv   == <<own_origin, own_last_pub>>
delv   == <<del_stopped, del_delivered>>
sync2v == <<s2_kind, s2_data, s2_shared_state, s2_write_index, s2_read_index,
            s2_is_initial, s2_rpc, s2_ret, s2_got, s2_prev_word>>
mainv  == <<NEXT_FFT, FFT_AVAILABLE, scratch_fft, received_fft, fft_box, cb_pc, main_pc,
            fft_produced, fft_shown, fft_stopped>>
fftv   == <<fb_pc, fb_cfg, fb_buffer, fb_items, fb_index, fb_calls, fb_frames>>
argv   == <<arg_src, arg_ret>>
otherv == <<ownv, delv, sync2v, mainv, fftv, argv>>
extv   == <<ctor, atomv, syncv, arcv, hbv, otherv>>
vars   == <<cellv, rlocal, ghost, loomv, extv>>

-----------------------------------------------------------------------------
\* Bounds of the model

\* The writer of the general specification stores values 1..MaxVal.
MaxVal == 2

-----------------------------------------------------------------------------
\* Program constants

INDEX_MASK == 3
FRESH_FLAG == 4

\* tests::loom_flip_cell
initial == 0
write_begin == 1
write_end == 4
loom_iterations == 8

Slots  == 0 .. 2
Fields == {"a", "b"}
Values == 1 .. MaxVal

\* A T whose two fields both hold v.
Whole(v) == [a |-> v, b |-> v]

\* No value: the reader has not read yet.
None == [a |-> -1, b |-> -1]

\* u8 bit operations.
RECURSIVE BitAnd(_, _)
BitAnd(x, y) ==
    IF x = 0 \/ y = 0 THEN 0
    ELSE (x % 2) * (y % 2) + 2 * BitAnd(x \div 2, y \div 2)

RECURSIVE BitOr(_, _)
BitOr(x, y) ==
    IF x = 0 THEN y
    ELSE IF y = 0 THEN x
    ELSE (IF x % 2 = 1 \/ y % 2 = 1 THEN 1 ELSE 0) + 2 * BitOr(x \div 2, y \div 2)

\* Widths and literals of sync.rs's `impl Atom for SpectrumStatus`
U8_BITS == 8
U16_BITS == 16
SHIFT == 8
AVAILABLE_MASK == 1

\* The reader is between two calls.
CallPoints == {"idle", "fetched", "read_done"}

\* The first fetch() call has returned.
FirstFetchDone == nth_fetch = "later" \/ (nth_fetch = "first" /\ rpc # "swap")

-----------------------------------------------------------------------------
\* Construction

\* new3 that hands slot 2 to the writer and slot 1 to the reader.
new3_swapped_handles(shared_v, writer_v, reader_v) ==
    /\ data = [i \in Slots |-> CASE i = 0 -> shared_v
                                 [] i = 1 -> writer_v
                                 [] i = 2 -> reader_v]
    /\ shared_state = 0
    /\ write_index = 2
    /\ read_index = 1
    /\ is_initial = TRUE

\* FlipCell::new3(shared_v, writer_v, reader_v)
new3(shared_v, writer_v, reader_v) ==
    /\ data = [i \in Slots |-> CASE i = 0 -> shared_v
                                 [] i = 1 -> writer_v
                                 [] i = 2 -> reader_v]
    /\ shared_state = 0
    /\ write_index = 1
    /\ read_index = 2
    /\ is_initial = TRUE

\* FlipCell::new_clone(value)
new_clone(value) == new3(value, value, value)

\* T::default() of the payload
T_default == Whole(0)

\* FlipCell::new_default()
new_default == new3(T_default, T_default, T_default)

InitThreads ==
    /\ rpc = "idle"
    /\ ret = FALSE
    /\ ra = 0
    /\ rval = None
    /\ clean = [i \in Slots |-> TRUE]
    /\ nth_fetch = "none"
    /\ pub_after_first = FALSE
    /\ first_read = None
    /\ pub_during_fetch = FALSE
    /\ fetch_steps = 0
    /\ fetch_swaps = 0
    /\ ever_published = FALSE
    /\ wpc = "write_a"
    /\ wx = write_begin
    /\ iter = 0
    /\ last_seen = -1
    /\ npub = 0
    /\ lin_npub = 0
    /\ prev_lin_npub = 0
    /\ nlin = 0
    /\ seen = {}
    /\ skipped = {}

-----------------------------------------------------------------------------
\* Encodings of (index, flag) in one atomic word

\* No value encoded or decoded yet.
NoAtom == [kind |-> "none", index |-> 0, flag |-> FALSE]

\* `flag as u16`
BoolAsInt(flag) == IF flag THEN 1 ELSE 0

\* pack() that shifts shared_index within its own type, u8, before widening.
SpectrumStatus_pack_shift_in_u8(self) ==
    LET shifted == (self.index * 2^SHIFT) % 2^U8_BITS
        sum     == shifted + BoolAsInt(self.flag)
    IN  [repr     |-> sum % 2^U16_BITS,
         overflow |-> sum >= 2^U16_BITS]

\* <SpectrumStatus as Atom>::pack: ((shared_index as u16) << 8) + (available as u16).
\* `<<` drops the bits shifted out of the u16; `+` overflows when the sum does
\* not fit.
SpectrumStatus_pack(self) ==
    LET shifted == (self.index * 2^SHIFT) % 2^U16_BITS
        sum     == shifted + BoolAsInt(self.flag)
    IN  [repr     |-> sum % 2^U16_BITS,
         overflow |-> sum >= 2^U16_BITS]

\* <SpectrumStatus as Atom>::unpack: shared_index = (src >> 8) as u8,
\* available = (src & 1) != 0.
SpectrumStatus_unpack(src) ==
    [kind  |-> "SpectrumStatus",
     index |-> (src \div 2^SHIFT) % 2^U8_BITS,
     flag  |-> BitAnd(src, AVAILABLE_MASK) # 0]

\* The word publish() and fetch() store in shared_state: the index, with
\* FRESH_FLAG or-ed in by publish() and without it by fetch().
SharedState_encode(index, fresh) ==
    BitOr(index, IF fresh THEN FRESH_FLAG ELSE 0)

\* What publish() and fetch() take from a word of shared_state.
SharedState_decode(word) ==
    [kind  |-> "SharedState",
     index |-> BitAnd(word, INDEX_MASK),
     flag  |-> BitAnd(word, FRESH_FLAG) # 0]

\* Every SpectrumStatus, and every (index, fresh) of a flip cell.
AtomInputs ==
    {[kind |-> "SpectrumStatus", index |-> i, flag |-> f] :
         i \in 0 .. 2^U8_BITS - 1, f \in BOOLEAN}
    \cup {[kind |-> "SharedState", index |-> i, flag |-> f] : i \in Slots, f \in BOOLEAN}

\* Nothing is being encoded.
AtomIdle ==
    /\ atom_pc = "none"
    /\ atom_in = NoAtom
    /\ atom_repr = 0
    /\ atom_overflow = FALSE
    /\ atom_out = NoAtom

-----------------------------------------------------------------------------
\* sync.rs: SpectrumCell

\* No slot: nothing has been published.
NoSlot == -1

\* SpectrumFrame::new(spectrum_size), and no frame at all.
NewFrame == 0
NoFrame == -1

SpectrumStatus(shared_index, available) ==
    [kind |-> "SpectrumStatus", index |-> shared_index, flag |-> available]

\* Atomic<SpectrumStatus>::load
Status_load == SpectrumStatus_unpack(sp_status)

\* new_spectrum_cell()
new_spectrum_cell ==
    /\ sp_data = [i \in Slots |-> NewFrame]
    /\ sp_got = NoFrame
    /\ sp_status = SpectrumStatus_pack(SpectrumStatus(0, FALSE)).repr
    /\ sp_write_index = 1
    /\ sp_read_index = 2
    /\ sp_is_initial = TRUE
    /\ sp_rpc = "idle"
    /\ sp_fetch_ret = FALSE
    /\ sp_publish_ret = FALSE
    /\ sp_last_pub = NoSlot
    /\ sp_npub = 0

SyncFrame == UNCHANGED <<cellv, rlocal, ghost, loomv, ctor, atomv, arcv, hbv, otherv>>

\* A store through the `&mut SpectrumFrame` of SpectrumWriter::get_mut
SpectrumWriter_get_mut(v) ==
    /\ sp_data' = [sp_data EXCEPT ![sp_write_index] = v]
    /\ UNCHANGED <<sp_got, sp_status, sp_write_index, sp_read_index, sp_is_initial,
                   sp_rpc, sp_fetch_ret, sp_publish_ret, sp_last_pub, sp_npub>>

\* A read through the `&SpectrumFrame` of SpectrumReader::get
SpectrumReader_get ==
    /\ sp_rpc \in {"idle", "fetched"}
    /\ sp_got' = sp_data[sp_read_index]
    /\ UNCHANGED <<sp_data, sp_status, sp_write_index, sp_read_index, sp_is_initial,
                   sp_rpc, sp_fetch_ret, sp_publish_ret, sp_last_pub, sp_npub>>

\* publish() that returns depublished.available itself.
SpectrumWriter_publish_returns_available ==
    LET publish     == SpectrumStatus(sp_write_index % 2^U8_BITS, TRUE)
        depublished == Status_load
    IN  /\ sp_status' = SpectrumStatus_pack(publish).repr
        /\ sp_write_index' = depublished.index
        /\ sp_publish_ret' = depublished.flag
        /\ sp_last_pub' = sp_write_index
        /\ sp_npub' = IF sp_npub < 2 THEN sp_npub + 1 ELSE 2
        /\ UNCHANGED <<sp_data, sp_got, sp_read_index, sp_is_initial, sp_rpc, sp_fetch_ret>>

\* SpectrumWriter::publish
SpectrumWriter_publish ==
    LET publish     == SpectrumStatus(sp_write_index % 2^U8_BITS, TRUE)
        depublished == Status_load
    IN  /\ sp_status' = SpectrumStatus_pack(publish).repr
        /\ sp_write_index' = depublished.index
        /\ sp_publish_ret' = ~depublished.flag
        /\ sp_last_pub' = sp_write_index
        /\ sp_npub' = IF sp_npub < 2 THEN sp_npub + 1 ELSE 2
        /\ UNCHANGED <<sp_data, sp_got, sp_read_index, sp_is_initial, sp_rpc, sp_fetch_ret>>

\* SpectrumReader::fetch, up to and including the Relaxed load and its branch.
SpectrumReader_fetch_load ==
    /\ sp_rpc \in {"idle", "fetched"}
    /\ sp_is_initial' = FALSE
    /\ IF ~Status_load.flag
         THEN /\ sp_rpc' = "fetched"
              /\ sp_fetch_ret' = sp_is_initial
         ELSE /\ sp_rpc' = "swap"
              /\ sp_fetch_ret' = FALSE
    /\ UNCHANGED <<sp_data, sp_got, sp_status, sp_write_index, sp_read_index,
                   sp_publish_ret, sp_last_pub, sp_npub>>

\* SpectrumReader::fetch, from the swap to the return.
SpectrumReader_fetch_swap ==
    /\ sp_rpc = "swap"
    /\ LET dirty     == SpectrumStatus(sp_read_index, FALSE)
           published == Status_load
       IN  /\ sp_status' = SpectrumStatus_pack(dirty).repr
           /\ IF published.flag
                THEN /\ sp_read_index' = published.index
                     /\ sp_fetch_ret' = TRUE
                     /\ sp_rpc' = "fetched"
                ELSE /\ sp_rpc' = "panic"
                     /\ UNCHANGED <<sp_read_index, sp_fetch_ret>>
    /\ UNCHANGED <<sp_data, sp_got, sp_write_index, sp_is_initial, sp_publish_ret,
                   sp_last_pub, sp_npub>>

-----------------------------------------------------------------------------
\* The Arc<FlipCell<T>> of new3(): one strong reference in each handle

\* Arc::new: the strong count of a new Arc
Arc_new == 1

\* A second handle made from a copy of the pointer, without Arc::clone.
Arc_clone_no_increment(strong) == strong

\* Arc::clone: one more strong reference
Arc_clone(strong) == strong + 1

\* new3(): `let writer = Arc::new(..); let reader = Arc::clone(&writer);`
new3_arcs ==
    /\ arc_strong = Arc_clone(Arc_new)
    /\ arc_freed = FALSE
    /\ writer_alive = TRUE
    /\ reader_alive = TRUE
    /\ arc_uaf = FALSE
    /\ arc_last_pub = None
    /\ arc_fetch_after = FALSE

\* <Arc as Drop>::drop: the strong count goes down by one, and the handle that
\* held the last reference drops the FlipCell.
Arc_drop ==
    /\ arc_strong' = arc_strong - 1
    /\ arc_freed' = (arc_freed \/ arc_strong = 1)

\* An operation of a handle dereferences its Arc.
Arc_deref == arc_uaf' = (arc_uaf \/ arc_freed)

-----------------------------------------------------------------------------
\* Memory orderings and happens-before

\* A publish() whose swap only releases.
publish_ordering_release == "Release"

\* The orderings of shared_state.swap() in publish(), of shared_state.load()
\* in fetch() and of shared_state.swap() in fetch().
publish_ordering == "AcqRel"
fetch_load_ordering == "Relaxed"
fetch_ordering == "AcqRel"

Orderings == {"Relaxed", "Acquire", "Release", "AcqRel"}
Acquires(ordering) == ordering \in {"Acquire", "AcqRel"}
Releases(ordering) == ordering \in {"Release", "AcqRel"}

\* <<the ordering of publish()'s swap, the ordering of fetch()'s swap>>
OrderingPairs == Orderings \X Orderings

AllSlots == [i \in Slots |-> TRUE]
NoSlots == [i \in Slots |-> FALSE]

\* What happens-before what, between the writer's stores to the slots, the
\* reader's reads of them and the atomic accesses to shared_state:
\*   wr_known[i]  the writer's last store to slot i happens-before the
\*                reader's next access;
\*   wr_sync[i]   a thread that acquires from shared_state now comes to be
\*                after the writer's last store to slot i;
\*   rd_known[i], rd_sync[i]  the same for the reader's last read of slot i
\*                and the writer;
\*   race         two accesses to one slot, one of them a store, were not
\*                ordered by happens-before.
\* Construction happens-before both threads.
HbInit ==
    [wr_known |-> AllSlots, wr_sync |-> AllSlots,
     rd_known |-> AllSlots, rd_sync |-> AllSlots, race |-> FALSE]

\* After a data race nothing else is tracked.
HbRaced ==
    [wr_known |-> NoSlots, wr_sync |-> NoSlots,
     rd_known |-> NoSlots, rd_sync |-> NoSlots, race |-> TRUE]

\* The writer stores to slot i through get_mut() / with_mut().
HbStore(h, i) ==
    IF h.race \/ ~h.rd_known[i] THEN HbRaced
    ELSE [h EXCEPT !.wr_known[i] = FALSE, !.wr_sync[i] = FALSE]

\* The reader reads slot i through get() / with().
HbRead(h, i) ==
    IF h.race \/ ~h.wr_known[i] THEN HbRaced
    ELSE [h EXCEPT !.rd_known[i] = FALSE, !.rd_sync[i] = FALSE]

\* The writer's swap: its load part acquires what shared_state carries, its
\* store part releases what the writer has done and knows; a store part that
\* does not release continues the release sequence it reads from.
HbWriterSwap(h, ordering) ==
    LET acquired == IF Acquires(ordering)
                      THEN [h EXCEPT !.rd_known = [i \in Slots |-> h.rd_known[i] \/ h.rd_sync[i]]]
                      ELSE h
        released == IF Releases(ordering)
                      THEN [acquired EXCEPT
                               !.wr_sync = AllSlots,
                               !.rd_sync = [i \in Slots |-> acquired.rd_sync[i] \/ acquired.rd_known[i]]]
                      ELSE acquired
    IN  IF h.race THEN h ELSE released

\* The reader's load.
HbReaderLoad(h, ordering) ==
    IF h.race \/ ~Acquires(ordering) THEN h
    ELSE [h EXCEPT !.wr_known = [i \in Slots |-> h.wr_known[i] \/ h.wr_sync[i]]]

\* The reader's swap.
HbReaderSwap(h, ordering) ==
    LET acquired == HbReaderLoad(h, ordering)
        released == IF Releases(ordering)
                      THEN [acquired EXCEPT
                               !.rd_sync = AllSlots,
                               !.wr_sync = [i \in Slots |-> acquired.wr_sync[i] \/ acquired.wr_known[i]]]
                      ELSE acquired
    IN  IF h.race THEN h ELSE released

HbStart ==
    /\ hb = [c \in OrderingPairs |-> HbInit]
    /\ hb_written = NoSlots
    /\ hb_was_read = NoSlots
    /\ hb_read_written = FALSE
    /\ hb_wrote_read = FALSE

\* Happens-before is not tracked.
HbOff ==
    /\ hb = <<>>
    /\ hb_written = NoSlots
    /\ hb_was_read = NoSlots
    /\ hb_read_written = FALSE
    /\ hb_wrote_read = FALSE

-----------------------------------------------------------------------------
\* Which handle released each slot

\* new3(): no handle has released any slot, and nothing has been published.
OwnStart ==
    /\ own_origin = [i \in Slots |-> "new3"]
    /\ own_last_pub = NoSlot

\* The writer has not stopped and nothing has been delivered.
DelStart ==
    /\ del_stopped = FALSE
    /\ del_delivered = FALSE

-----------------------------------------------------------------------------
\* sync2.rs: FlipCell

\* FlipCell::new3(v0, v1, v2): a cell without handles; its shared word is a
\* placeholder.
FlipCell2_new3(v0, v1, v2) ==
    /\ s2_kind = "cell"
    /\ s2_data = [i \in Slots |-> CASE i = 0 -> v0 [] i = 1 -> v1 [] i = 2 -> v2]
    /\ s2_shared_state = 0
    /\ s2_write_index = NoSlot
    /\ s2_read_index = NoSlot
    /\ s2_is_initial = TRUE
    /\ s2_rpc = "idle"
    /\ s2_ret = FALSE
    /\ s2_got = NoFrame
    /\ s2_prev_word = 0

\* FlipCell::new_default()
FlipCell2_new_default == FlipCell2_new3(NewFrame, NewFrame, NewFrame)

\* What into_arc() and get_ref() have in common apart from the shared word:
\* a FlipWriter on slot 1 and a FlipReader on slot 2 that has never fetched.
FlipCell2_handles ==
    /\ s2_write_index' = 1
    /\ s2_read_index' = 2
    /\ s2_is_initial' = TRUE
    /\ s2_rpc' = "idle"
    /\ s2_ret' = FALSE
    /\ s2_got' = NoFrame
    /\ s2_prev_word' = s2_shared_state
    /\ UNCHANGED s2_data

\* get_ref() that leaves the shared word as it finds it.
FlipCell2_get_ref_keeps_word ==
    /\ s2_kind = "cell"
    /\ s2_kind' = "ref"
    /\ s2_shared_state' = s2_shared_state
    /\ FlipCell2_handles

\* FlipCell::into_arc(self)
FlipCell2_into_arc ==
    /\ s2_kind = "cell"
    /\ s2_kind' = "arc"
    /\ s2_shared_state' = 0
    /\ FlipCell2_handles

\* FlipCell::get_ref(&mut self)
FlipCell2_get_ref ==
    /\ s2_kind = "cell"
    /\ s2_kind' = "ref"
    /\ s2_shared_state' = 0
    /\ FlipCell2_handles

\* Both handles are dropped; the borrow of get_ref() ends, the cell of
\* into_arc() is dropped with its Arc.
FlipCell2_drop_handles ==
    /\ s2_kind \in {"arc", "ref"}
    /\ s2_rpc \in {"idle", "fetched"}
    /\ s2_kind' = IF s2_kind = "arc" THEN "dropped" ELSE "cell"
    /\ s2_write_index' = NoSlot
    /\ s2_read_index' = NoSlot
    /\ UNCHANGED <<s2_data, s2_shared_state, s2_is_initial, s2_rpc, s2_ret, s2_got, s2_prev_word>>

\* A store through the `&mut T` of FlipWriter::get_mut
FlipWriter2_get_mut(v) ==
    /\ s2_write_index # NoSlot
    /\ s2_data' = [s2_data EXCEPT ![s2_write_index] = v]
    /\ UNCHANGED <<s2_kind, s2_shared_state, s2_write_index, s2_read_index, s2_is_initial,
                   s2_rpc, s2_ret, s2_got, s2_prev_word>>

\* FlipWriter::publish
FlipWriter2_publish ==
    /\ s2_write_index # NoSlot
    /\ LET publish_index == BitOr(s2_write_index, FRESH_FLAG)
           depublished   == s2_shared_state
       IN  /\ s2_shared_state' = publish_index
           /\ s2_write_index' = BitAnd(depublished, INDEX_MASK)
    /\ UNCHANGED <<s2_kind, s2_data, s2_read_index, s2_is_initial, s2_rpc, s2_ret, s2_got,
                   s2_prev_word>>

\* A read through the `&T` of FlipReader::get
FlipReader2_get ==
    /\ s2_read_index # NoSlot
    /\ s2_rpc \in {"idle", "fetched"}
    /\ s2_got' = s2_data[s2_read_index]
    /\ UNCHANGED <<s2_kind, s2_data, s2_shared_state, s2_write_index, s2_read_index,
                   s2_is_initial, s2_rpc, s2_ret, s2_prev_word>>

\* FlipReader::fetch, up to and including the Relaxed load and its branch.
FlipReader2_fetch_load ==
    /\ s2_read_index # NoSlot
    /\ s2_rpc \in {"idle", "fetched"}
    /\ s2_is_initial' = FALSE
    /\ IF BitAnd(s2_shared_state, FRESH_FLAG) = 0
         THEN /\ s2_rpc' = "fetched"
              /\ s2_ret' = s2_is_initial
         ELSE /\ s2_rpc' = "swap"
              /\ s2_ret' = FALSE
    /\ UNCHANGED <<s2_kind, s2_data, s2_shared_state, s2_write_index, s2_read_index,
                   s2_got, s2_prev_word>>

\* FlipReader::fetch, from the swap to the return.
FlipReader2_fetch_swap ==
    /\ s2_rpc = "swap"
    /\ LET stale_state     == s2_read_index
           published_state == s2_shared_state
       IN  /\ s2_shared_state' = stale_state
           /\ IF BitAnd(published_state, FRESH_FLAG) = FRESH_FLAG
                THEN /\ s2_read_index' = BitAnd(published_state, INDEX_MASK)
                     /\ s2_ret' = TRUE
                     /\ s2_rpc' = "fetched"
                ELSE /\ s2_rpc' = "panic"
                     /\ UNCHANGED <<s2_read_index, s2_ret>>
    /\ UNCHANGED <<s2_kind, s2_data, s2_write_index, s2_is_initial, s2_got, s2_prev_word>>

-----------------------------------------------------------------------------
\* src/main.rs: NEXT_FFT and FFT_AVAILABLE

\* The three boxes new_spectrum_box() makes, in the order main() makes them.
Boxes == 0 .. 2

\* Option::None in a holder of a box
NoBox == -1

\* The number of a spectrum never shown
NotShown == -1

\* main() once the stream plays: NEXT_FFT and scratch_fft hold their boxes of
\* zeros, received_fft is not made yet and the event loop has not started.
MainStart ==
    /\ NEXT_FFT = 0
    /\ FFT_AVAILABLE = FALSE
    /\ scratch_fft = 1
    /\ received_fft = NoBox
    /\ fft_box = [b \in Boxes |-> 0]
    /\ cb_pc = "idle"
    /\ main_pc = "setup"
    /\ fft_produced = 0
    /\ fft_shown = NotShown
    /\ fft_stopped = FALSE

-----------------------------------------------------------------------------
\* src/fft.rs and parse_fft_size of src/main.rs, while they are not under study

\* What parse_fft_size has returned before it was called
NoResult == [kind |-> "none", value |-> 0]

FftOff ==
    /\ fb_pc = "off"
    /\ fb_cfg = [size |-> 0, redraw_interval |-> 0, channels |-> 0]
    /\ fb_buffer = <<>>
    /\ fb_items = <<>>
    /\ fb_index = 0
    /\ fb_calls = <<>>
    /\ fb_frames = 0

ArgOff ==
    /\ arg_src = <<>>
    /\ arg_ret = NoResult

\* The initial state of the components that follow.
OtherIdle ==
    /\ OwnStart
    /\ DelStart
    /\ FlipCell2_new_default
    /\ MainStart
    /\ FftOff
    /\ ArgOff

\* The initial state of everything but the flip cell under test and its two threads.
InitExt ==
    /\ AtomIdle
    /\ new_spectrum_cell
    /\ new3_arcs
    /\ HbOff
    /\ OtherIdle

Init ==
    /\ new_clone(Whole(initial))
    /\ ctor = <<Whole(initial), Whole(initial), Whole(initial)>>
    /\ InitThreads
    /\ InitExt

-----------------------------------------------------------------------------
\* FlipWriter

\* What a step of the writer leaves alone.
WriterFrame == UNCHANGED <<read_index, is_initial, rlocal, nth_fetch, fetch_steps, fetch_swaps>>

\* The history variables' record of one publish().
PublishHistory ==
    /\ clean' = [clean EXCEPT ![write_index] = TRUE]
    /\ pub_after_first' = (pub_after_first \/ FirstFetchDone)
    /\ first_read' = IF pub_after_first' THEN None ELSE first_read
    /\ pub_during_fetch' = (pub_during_fetch \/ rpc = "swap")
    /\ ever_published' = TRUE

\* One store through the `&mut T` of get_mut() / with_mut(): field f := v.
FlipWriter_with_mut(f, v) ==
    /\ data' = [data EXCEPT ![write_index][f] = v]
    /\ clean' = [clean EXCEPT ![write_index] = FALSE]
    /\ UNCHANGED <<shared_state, write_index, pub_after_first, first_read, pub_during_fetch>>
    /\ UNCHANGED ever_published
    /\ WriterFrame

\* publish() that stores its index and keeps writing to the slot it published.
FlipWriter_publish_keeps_index ==
    LET publish_index == BitOr(write_index, FRESH_FLAG)
    IN  /\ shared_state' = publish_index
        /\ write_index' = write_index
        /\ PublishHistory
        /\ UNCHANGED data
        /\ WriterFrame

\* publish() that leaves an unconsumed in-flight value in place.
FlipWriter_publish_unless_fresh ==
    LET publish_index == BitOr(write_index, FRESH_FLAG)
        depublished   == shared_state
    IN  /\ IF BitAnd(depublished, FRESH_FLAG) = FRESH_FLAG
             THEN UNCHANGED <<shared_state, write_index>>
             ELSE /\ shared_state' = publish_index
                  /\ write_index' = BitAnd(depublished, INDEX_MASK)
        /\ PublishHistory
        /\ UNCHANGED data
        /\ WriterFrame

\* publish() that waits until the reader has consumed the in-flight value.
FlipWriter_publish_waits ==
    LET publish_index == BitOr(write_index, FRESH_FLAG)
        depublished   == shared_state
    IN  /\ BitAnd(depublished, FRESH_FLAG) = 0
        /\ shared_state' = publish_index
        /\ write_index' = BitAnd(depublished, INDEX_MASK)
        /\ PublishHistory
        /\ UNCHANGED data
        /\ WriterFrame

\* publish() that stores its index without the fresh bit.
FlipWriter_publish_not_fresh ==
    LET publish_index == write_index
        depublished   == shared_state
    IN  /\ shared_state' = publish_index
        /\ write_index' = BitAnd(depublished, INDEX_MASK)
        /\ PublishHistory
        /\ UNCHANGED data
        /\ WriterFrame

\* publish() that resets the slot it takes over to T::default().
FlipWriter_publish_clears_slot ==
    LET publish_index == BitOr(write_index, FRESH_FLAG)
        depublished   == shared_state
    IN  /\ shared_state' = publish_index
        /\ write_index' = BitAnd(depublished, INDEX_MASK)
        /\ PublishHistory
        /\ data' = [data EXCEPT ![BitAnd(depublished, INDEX_MASK)] = T_default]
        /\ WriterFrame

\* FlipWriter::publish
FlipWriter_publish ==
    LET publish_index == BitOr(write_index, FRESH_FLAG)
        depublished   == shared_state
    IN  /\ shared_state' = publish_index
        /\ write_index' = BitAnd(depublished, INDEX_MASK)
        /\ PublishHistory
        /\ UNCHANGED data
        /\ WriterFrame

-----------------------------------------------------------------------------
\* FlipReader

\* What the first step of fetch() does besides the load and its branch.
FetchLoadFrame ==
    /\ ra' = 0
    /\ rval' = None
    /\ nth_fetch' = IF nth_fetch = "none" THEN "first" ELSE "later"
    /\ pub_during_fetch' = FALSE
    /\ fetch_steps' = 1
    /\ fetch_swaps' = 0
    /\ UNCHANGED <<data, shared_state, write_index, read_index>>
    /\ UNCHANGED <<clean, pub_after_first, first_read, ever_published>>

\* fetch() without the special case of the first call.
FlipReader_fetch_load_no_initial ==
    /\ rpc \in CallPoints
    /\ is_initial' = FALSE
    /\ IF BitAnd(shared_state, FRESH_FLAG) = 0
         THEN /\ rpc' = "fetched"
              /\ ret' = FALSE
         ELSE /\ rpc' = "swap"
              /\ ret' = FALSE
    /\ FetchLoadFrame

\* fetch() that never clears is_initial.
FlipReader_fetch_load_keeps_initial ==
    /\ rpc \in CallPoints
    /\ is_initial' = is_initial
    /\ IF BitAnd(shared_state, FRESH_FLAG) = 0
         THEN /\ rpc' = "fetched"
              /\ ret' = is_initial
         ELSE /\ rpc' = "swap"
              /\ ret' = FALSE
    /\ FetchLoadFrame

\* fetch() that tests the loaded word against INDEX_MASK instead of FRESH_FLAG.
FlipReader_fetch_load_wrong_mask ==
    /\ rpc \in CallPoints
    /\ is_initial' = FALSE
    /\ IF BitAnd(shared_state, INDEX_MASK) = 0
         THEN /\ rpc' = "fetched"
              /\ ret' = is_initial
         ELSE /\ rpc' = "swap"
              /\ ret' = FALSE
    /\ FetchLoadFrame

\* fetch() that reports a change whenever it finds nothing fresh.
FlipReader_fetch_load_always_true ==
    /\ rpc \in CallPoints
    /\ is_initial' = FALSE
    /\ IF BitAnd(shared_state, FRESH_FLAG) = 0
         THEN /\ rpc' = "fetched"
              /\ ret' = TRUE
         ELSE /\ rpc' = "swap"
              /\ ret' = FALSE
    /\ FetchLoadFrame

\* fetch() that returns early only on the first call and otherwise exchanges
\* whether or not the word is fresh.
FlipReader_fetch_load_swaps_when_stale ==
    /\ rpc \in CallPoints
    /\ is_initial' = FALSE
    /\ IF BitAnd(shared_state, FRESH_FLAG) = 0 /\ is_initial
         THEN /\ rpc' = "fetched"
              /\ ret' = is_initial
         ELSE /\ rpc' = "swap"
              /\ ret' = FALSE
    /\ FetchLoadFrame

\* fetch() that clears is_initial only on its early-return path.
FlipReader_fetch_load_clears_late ==
    /\ rpc \in CallPoints
    /\ IF BitAnd(shared_state, FRESH_FLAG) = 0
         THEN /\ is_initial' = FALSE
              /\ rpc' = "fetched"
              /\ ret' = is_initial
         ELSE /\ is_initial' = is_initial
              /\ rpc' = "swap"
              /\ ret' = FALSE
    /\ FetchLoadFrame

\* FlipReader::fetch, up to and including the Relaxed load and its branch.
FlipReader_fetch_load ==
    /\ rpc \in CallPoints
    /\ is_initial' = FALSE
    /\ IF BitAnd(shared_state, FRESH_FLAG) = 0
         THEN /\ rpc' = "fetched"
              /\ ret' = is_initial
         ELSE /\ rpc' = "swap"
              /\ ret' = FALSE
    /\ FetchLoadFrame

\* What the second step of fetch() does besides the exchange and the return.
FetchSwapFrame ==
    /\ fetch_steps' = fetch_steps + 1
    /\ fetch_swaps' = fetch_swaps + 1
    /\ UNCHANGED <<data, write_index, is_initial, ra, rval>>
    /\ UNCHANGED <<clean, nth_fetch, pub_after_first, first_read, pub_during_fetch, ever_published>>

\* fetch() that takes the in-flight index with a load and stores nothing.
FlipReader_fetch_swap_as_load ==
    /\ rpc = "swap"
    /\ LET published_state == shared_state
       IN  /\ shared_state' = shared_state
           /\ read_index' = BitAnd(published_state, INDEX_MASK)
           /\ ret' = TRUE
           /\ rpc' = "fetched"
    /\ FetchSwapFrame

\* fetch() that clears the fresh bit in place (fetch_and) instead of exchanging indices.
FlipReader_fetch_swap_as_fetch_and ==
    /\ rpc = "swap"
    /\ LET published_state == shared_state
       IN  /\ shared_state' = BitAnd(published_state, INDEX_MASK)
           /\ read_index' = BitAnd(published_state, INDEX_MASK)
           /\ ret' = TRUE
           /\ rpc' = "fetched"
    /\ FetchSwapFrame

\* fetch() that hands its stale index over with the fresh bit set.
FlipReader_fetch_swap_marks_fresh ==
    /\ rpc = "swap"
    /\ LET stale_state     == BitOr(read_index, FRESH_FLAG)
           published_state == shared_state
       IN  /\ shared_state' = stale_state
           /\ IF BitAnd(published_state, FRESH_FLAG) = FRESH_FLAG
                THEN /\ read_index' = BitAnd(published_state, INDEX_MASK)
                     /\ ret' = TRUE
                     /\ rpc' = "fetched"
                ELSE /\ read_index' = read_index
                     /\ ret' = FALSE
                     /\ rpc' = "panic"
    /\ FetchSwapFrame

\* fetch() that returns is_initial after the exchange too.
FlipReader_fetch_swap_returns_initial ==
    /\ rpc = "swap"
    /\ LET stale_state     == read_index
           published_state == shared_state
       IN  /\ shared_state' = stale_state
           /\ IF BitAnd(published_state, FRESH_FLAG) = FRESH_FLAG
                THEN /\ read_index' = BitAnd(published_state, INDEX_MASK)
                     /\ ret' = is_initial
                     /\ rpc' = "fetched"
                ELSE /\ read_index' = read_index
                     /\ ret' = FALSE
                     /\ rpc' = "panic"
    /\ FetchSwapFrame

\* FlipReader::fetch, the AcqRel swap, the assertion and the return.
\* A failed assertion panics: the thread stops at "panic".
FlipReader_fetch_swap ==
    /\ rpc = "swap"
    /\ LET stale_state     == read_index
           published_state == shared_state
       IN  /\ shared_state' = stale_state
           /\ IF BitAnd(published_state, FRESH_FLAG) = FRESH_FLAG
                THEN /\ read_index' = BitAnd(published_state, INDEX_MASK)
                     /\ ret' = TRUE
                     /\ rpc' = "fetched"
                ELSE /\ read_index' = read_index
                     /\ ret' = FALSE
                     /\ rpc' = "panic"
    /\ FetchSwapFrame

\* FlipReader::get / with: the load of field a.
FlipReader_with_a ==
    /\ rpc \in CallPoints
    /\ ra' = data[read_index].a
    /\ rval' = None
    /\ rpc' = "read_b"
    /\ pub_during_fetch' = FALSE
    /\ fetch_steps' = 0
    /\ fetch_swaps' = 0
    /\ UNCHANGED <<cellv, ret>>
    /\ UNCHANGED <<clean, nth_fetch, pub_after_first, first_read, ever_published>>

\* FlipReader::get / with: the load of field b, which completes the read.
FlipReader_with_b ==
    /\ rpc = "read_b"
    /\ rval' = [a |-> ra, b |-> data[read_index].b]
    /\ ra' = 0
    /\ rpc' = "read_done"
    /\ first_read' = IF first_read = None /\ nth_fetch # "none" /\ ~pub_after_first
                      THEN rval' ELSE first_read
    /\ UNCHANGED <<cellv, ret>>
    /\ UNCHANGED <<clean, nth_fetch, pub_after_first, pub_during_fetch, fetch_steps, fetch_swaps>>
    /\ UNCHANGED ever_published

-----------------------------------------------------------------------------
\* Two threads that call the handles' operations in any order

Writer_get_mut == \E f \in Fields, v \in Values : FlipWriter_with_mut(f, v) /\ UNCHANGED <<loomv, extv>>
Writer_publish == FlipWriter_publish /\ UNCHANGED <<loomv, extv>>
Reader_fetch_load == FlipReader_fetch_load /\ UNCHANGED <<loomv, extv>>
Reader_fetch_swap == FlipReader_fetch_swap /\ UNCHANGED <<loomv, extv>>
Reader_get_a == FlipReader_with_a /\ UNCHANGED <<loomv, extv>>
Reader_get_b == FlipReader_with_b /\ UNCHANGED <<loomv, extv>>

Next ==
    \/ Writer_get_mut
    \/ Writer_publish
    \/ Reader_fetch_load
    \/ Reader_fetch_swap
    \/ Reader_get_a
    \/ Reader_get_b

Spec == Init /\ [][Next]_vars

-----------------------------------------------------------------------------
\* tests::loom_flip_cell: the writer thread stores x and publishes for
\* x in write_begin..write_end; the reader's loop fetches, reads and compares
\* loom_iterations times, then joins the writer thread.

LoomWriterFrame == UNCHANGED <<iter, last_seen, lin_npub, prev_lin_npub, nlin, seen, skipped, extv>>

\* The value the k-th publish() of the test publishes.
PublishedValue(k) == write_begin + k - 1

\* The history variables' record of a fetch() taking effect: the publishes
\* since the fetch before it form a window, whose last value is the one to read.
FetchTakesEffect ==
    /\ prev_lin_npub' = lin_npub
    /\ lin_npub' = npub
    /\ nlin' = IF nlin < 2 THEN nlin + 1 ELSE 2
    /\ skipped' = IF nlin >= 1
                    THEN skipped \cup {PublishedValue(k) : k \in (lin_npub + 1) .. (npub - 1)}
                    ELSE skipped

\* writer.with_mut(|p| *p = x), the store to field a
Loom_with_mut_a ==
    /\ wpc = "write_a"
    /\ wx < write_end
    /\ FlipWriter_with_mut("a", wx)
    /\ wpc' = "write_b"
    /\ UNCHANGED <<wx, npub>>
    /\ LoomWriterFrame

\* writer.with_mut(|p| *p = x), the store to field b
Loom_with_mut_b ==
    /\ wpc = "write_b"
    /\ FlipWriter_with_mut("b", wx)
    /\ wpc' = "publish"
    /\ UNCHANGED <<wx, npub>>
    /\ LoomWriterFrame

\* writer.publish(), and the loop's increment
Loom_publish ==
    /\ wpc = "publish"
    /\ FlipWriter_publish
    /\ npub' = npub + 1
    /\ wx' = wx + 1
    /\ wpc' = IF wx + 1 < write_end THEN "write_a" ELSE "done"
    /\ LoomWriterFrame

\* let is_fresh = reader.fetch(), up to the load
Loom_fetch_load ==
    /\ rpc = "idle"
    /\ iter < loom_iterations
    /\ FlipReader_fetch_load
    /\ IF rpc' = "fetched"
         THEN FetchTakesEffect
         ELSE UNCHANGED <<lin_npub, prev_lin_npub, nlin, skipped>>
    /\ UNCHANGED <<wpc, wx, npub, iter, last_seen, seen, extv>>

\* let is_fresh = reader.fetch(), the swap
Loom_fetch_swap ==
    /\ FlipReader_fetch_swap
    /\ FetchTakesEffect
    /\ UNCHANGED <<wpc, wx, npub, iter, last_seen, seen, extv>>

\* let x = reader.with(|&x| x), field a
Loom_with_a ==
    /\ rpc = "fetched"
    /\ FlipReader_with_a
    /\ UNCHANGED <<loomv, extv>>

\* let x = reader.with(|&x| x), field b
Loom_with_b ==
    /\ FlipReader_with_b
    /\ UNCHANGED <<loomv, extv>>

\* The three assertions (the claims state them), then last_seen = x.
Loom_loop_end ==
    /\ rpc = "read_done"
    /\ last_seen' = rval.a
    /\ seen' = seen \cup {rval.a}
    /\ iter' = iter + 1
    /\ rpc' = "idle"
    /\ UNCHANGED <<cellv, ret, ra, rval, ghost>>
    /\ UNCHANGED <<wpc, wx, npub, lin_npub, prev_lin_npub, nlin, skipped, extv>>

\* write_thread.join().unwrap()
Loom_join ==
    /\ rpc = "idle"
    /\ iter = loom_iterations
    /\ wpc = "done"
    /\ rpc' = "joined"
    /\ UNCHANGED <<cellv, ret, ra, rval, ghost>>
    /\ UNCHANGED <<loomv, extv>>

NextLoom ==
    \/ Loom_with_mut_a
    \/ Loom_with_mut_b
    \/ Loom_publish
    \/ Loom_fetch_load
    \/ Loom_fetch_swap
    \/ Loom_with_a
    \/ Loom_with_b
    \/ Loom_loop_end
    \/ Loom_join

SpecLoom == Init /\ [][NextLoom]_vars

-----------------------------------------------------------------------------
\* The index bits and the freshness bit of the shared word.
SharedIndex == BitAnd(shared_state, INDEX_MASK)
SharedFresh == BitAnd(shared_state, FRESH_FLAG) = FRESH_FLAG

\* C1: at every point of every interleaving of publish() and fetch(), the
\* writer's index, the index bits of the shared word and the reader's index
\* are pairwise distinct and together are {0, 1, 2}.
C1_Permutation ==
    /\ write_index # read_index
    /\ write_index # SharedIndex
    /\ read_index # SharedIndex
    /\ {write_index, SharedIndex, read_index} = {0, 1, 2}

\* Both handles have exchanged their slot: the writer twice, the reader once,
\* and the reader is in the middle of another fetch().
C1_Witness ==
    /\ write_index = 2
    /\ read_index = 1
    /\ rpc = "swap"

\* C2: no tearing. The slot the reader owns is never written (it holds the
\* value it had when it was last published, or constructed, and the writer
\* owns another slot), and the two halves of a read come from that one value.
C2_NoTearing ==
    /\ clean[read_index]
    /\ read_index # write_index
    /\ rpc = "read_b" => ra = data[read_index].a
    /\ rpc = "read_done" => rval = data[read_index]

\* The reader has read a whole published value while the writer is part-way
\* through writing its own slot.
C2_Witness ==
    /\ rpc = "read_done"
    /\ rval = Whole(2)
    /\ ~clean[write_index]
    /\ data[write_index].a # data[write_index].b

\* C5: the first fetch() call on the handle returns true, whatever the writer
\* did before or during the call.
C5_FirstFetchTrue ==
    /\ (rpc = "fetched" /\ nth_fetch = "first") => ret = TRUE
    /\ nth_fetch = "first" => rpc # "panic"

\* The first fetch() has returned, and publish() ran during it.
C5_Witness ==
    /\ rpc = "fetched"
    /\ nth_fetch = "first"
    /\ pub_during_fetch
    /\ ret = TRUE

\* C6: while no publish() has happened after the first fetch() returned, every
\* later fetch() returns false and every read returns the value of the first
\* read after the first fetch().
C6_QuiescentFetch ==
    ~pub_after_first =>
        /\ (rpc = "fetched" /\ nth_fetch = "later") => ret = FALSE
        /\ nth_fetch = "later" => rpc # "swap"
        /\ (rpc = "read_done" /\ first_read # None) => rval = first_read

\* No publish() since the first fetch(); a later fetch() has returned false
\* and a read after it has returned the published value read before.
C6_Witness ==
    /\ ~pub_after_first
    /\ nth_fetch = "later"
    /\ rpc = "read_done"
    /\ ret = FALSE
    /\ first_read = Whole(1)
    /\ rval = first_read
    /\ ~clean[write_index]

\* C8: the assertion in fetch() never fails: from the load that saw the fresh
\* bit until the reader's swap the shared word stays fresh.
C8_AssertionHolds ==
    /\ rpc # "panic"
    /\ rpc = "swap" => SharedFresh

\* A fetch() has swapped and returned after publish() ran between its load and
\* its swap.
C8_Witness ==
    /\ rpc = "fetched"
    /\ fetch_swaps = 1
    /\ pub_during_fetch

\* C9: no operation waits for the other thread. Whatever state the other
\* handle left, the writer can store and publish, the reader can start a
\* fetch() or a read between calls and can take the next step of the call it
\* is in; a fetch() takes at most two steps and at most one exchange.
C9_NonBlocking ==
    /\ ENABLED Writer_publish
    /\ ENABLED Writer_get_mut
    /\ rpc \in CallPoints \cup {"swap", "read_b"}
    /\ rpc \in CallPoints => (ENABLED Reader_fetch_load) /\ (ENABLED Reader_get_a)
    /\ rpc = "swap" => ENABLED Reader_fetch_swap
    /\ rpc = "read_b" => ENABLED Reader_get_b
    /\ fetch_steps <= 2
    /\ fetch_swaps <= 1

\* The writer has published at least twice and the reader has never fetched.
C9_Witness ==
    /\ nth_fetch = "none"
    /\ SharedFresh
    /\ SharedIndex = 0

\* C10: a step that leaves the reader's index alone leaves the content of the
\* reader's slot alone: between two fetches no write() or publish() changes
\* what read() returns.
C10_ReaderSlotStable ==
    [][read_index' = read_index => data'[read_index] = data[read_index]]_vars

\* After a fetch() the writer has published again and is part-way through
\* another write.
C10_Witness ==
    /\ nth_fetch # "none"
    /\ rpc = "fetched"
    /\ pub_after_first
    /\ SharedFresh
    /\ ~clean[write_index]

\* The reader's loop is at its assertions: x is rval, is_fresh is ret.
AtAssertions == rpc = "read_done"

\* C3: under every interleaving of the test, every value the reader observes is
\* whole, is the initial value or a value the writer has published by then, and
\* is not smaller than the value observed before it.
C3_MonotonicPublished ==
    AtAssertions =>
        /\ rval.a = rval.b
        /\ rval.a \in initial .. (write_end - 1)
        /\ rval.a = initial \/ rval.a \in {PublishedValue(k) : k \in 1 .. npub}
        /\ rval.a >= last_seen

\* The reader observes the last published value after having observed the first.
C3_Witness ==
    /\ AtAssertions
    /\ rval = Whole(write_end - 1)
    /\ last_seen = write_begin

\* The last two fetches both took effect, with at least one publish() between them.
WindowOfPublishes == nlin = 2 /\ lin_npub > prev_lin_npub

\* C4: coalescing. When publish() completed N >= 1 times between two fetches,
\* the later fetch() returns true and the read after it yields the value of the
\* last of those publishes; the values of the other N - 1 are never read.
C4_Coalescing ==
    /\ (WindowOfPublishes /\ rpc \in {"fetched", "read_b", "read_done"}) => ret = TRUE
    /\ (WindowOfPublishes /\ rpc = "read_done") => rval = Whole(PublishedValue(lin_npub))
    /\ seen \cap skipped = {}
    /\ rpc = "read_done" => rval.a \notin skipped

\* Three publishes between two fetches: the read yields the third value, the
\* first two are skipped.
C4_Witness ==
    /\ WindowOfPublishes
    /\ lin_npub - prev_lin_npub = 3
    /\ rpc = "read_done"
    /\ rval = Whole(PublishedValue(3))
    /\ skipped = {PublishedValue(1), PublishedValue(2)}

\* C7: each fetch() returns true exactly when the value read after it is
\* newer than the value read after the fetch before it.
C7_FreshIffNewer ==
    AtAssertions => ((rval.a > last_seen) = ret)

\* A fetch() returned false and left the value, after one that returned true.
C7_Witness ==
    /\ AtAssertions
    /\ ret = FALSE
    /\ rval.a = last_seen
    /\ last_seen = write_begin + 1
    /\ wpc = "publish"

\* C11: publish() in one step installs (the writer's index before the call,
\* fresh) in the shared word and takes the index bits of the word that was
\* there; the writer's index after the call differs from the one before.
C11_PublishExchanges ==
    [][Writer_publish =>
          /\ shared_state' = write_index + FRESH_FLAG
          /\ SharedFresh'
          /\ SharedIndex' = write_index
          /\ write_index' = SharedIndex
          /\ write_index' # write_index]_vars

\* The second publish() since the last fetch(): the word it replaced was fresh.
C11_Witness ==
    /\ SharedFresh
    /\ SharedIndex = 2
    /\ write_index = 0
    /\ read_index = 1
    /\ rpc = "fetched"
    /\ pub_after_first

\* A step on which a fetch() call returns.
FetchReturns ==
    /\ Reader_fetch_load \/ Reader_fetch_swap
    /\ rpc' = "fetched"

\* C12 as stated: fetch() returns true exactly when read_index after the call
\* differs from read_index before it.
C12_Original ==
    [][FetchReturns => (ret' = (read_index' # read_index))]_vars

\* C12: fetch() returns true exactly when the reader's slot changed during
\* the call or the call is the first one on the handle, and false exactly when
\* the slot is unchanged and the call is not the first.
C12_FetchReportsChange ==
    [][FetchReturns => (ret' = ((read_index' # read_index) \/ is_initial))]_vars

\* A first fetch() that found nothing fresh: true, with the slot of construction.
C12_Witness ==
    /\ rpc = "fetched"
    /\ nth_fetch = "first"
    /\ ret
    /\ fetch_swaps = 0
    /\ read_index = 2
    /\ ~ever_published

\* C18: a fetch() that loads a fresh word goes on to exactly one exchange; the
\* exchange installs (the reader's index before the call, not fresh), gives the
\* reader the index bits of the word it took, leaves is_initial cleared and
\* returns true; after it the word stays not fresh until the next publish().
C18_FetchFresh ==
    [][/\ (Reader_fetch_load /\ SharedFresh) =>
              /\ rpc' = "swap"
              /\ fetch_swaps' = 0
              /\ ~is_initial'
              /\ UNCHANGED <<shared_state, read_index>>
       /\ Reader_fetch_swap =>
              /\ shared_state' = read_index
              /\ ~SharedFresh'
              /\ SharedIndex' = read_index
              /\ read_index' = SharedIndex
              /\ ~is_initial'
              /\ ret' = TRUE
              /\ rpc' = "fetched"
              /\ fetch_swaps' = 1
       /\ (~SharedFresh /\ ~Writer_publish) => ~SharedFresh'
      ]_vars

\* A later fetch() has exchanged and returned: the reader holds the slot that
\* was in flight and the word it left behind is not fresh.
C18_Witness ==
    /\ rpc = "fetched"
    /\ ret
    /\ fetch_swaps = 1
    /\ nth_fetch = "later"
    /\ shared_state = 2
    /\ read_index = 1
    /\ write_index = 0

\* C19: a fetch() that is not the first on the handle and loads a word that is
\* not fresh returns false at once and changes neither the shared word, nor
\* either handle's index, nor any of the three slots.
C19_StaleFetchNoEffect ==
    [][(Reader_fetch_load /\ ~is_initial /\ ~SharedFresh) =>
              /\ rpc' = "fetched"
              /\ ret' = FALSE
              /\ fetch_swaps' = 0
              /\ UNCHANGED <<shared_state, read_index, write_index, data, is_initial>>
      ]_vars

\* A later fetch() returned false after a publish and a fetch that claimed it,
\* while the writer is part-way through its next value.
C19_Witness ==
    /\ rpc = "fetched"
    /\ ~ret
    /\ nth_fetch = "later"
    /\ fetch_swaps = 0
    /\ ever_published
    /\ ~SharedFresh
    /\ ~clean[write_index]

\* C20: is_initial is true exactly while fetch() has never been called; the
\* first step of every fetch() leaves it false whether or not the word is
\* fresh, no step sets it again, and a fetch() that returns true without an
\* exchange is the first call on the handle.
C20_NeverFetchedFlag ==
    /\ [](is_initial <=> nth_fetch = "none")
    /\ [][/\ Reader_fetch_load => ~is_initial'
          /\ ~is_initial => ~is_initial'
          /\ (FetchReturns /\ ret' /\ fetch_swaps' = 0) =>
                 (is_initial /\ nth_fetch = "none" /\ nth_fetch' = "first")
         ]_vars

\* The first fetch() found a fresh word: it has cleared the flag and is about
\* to exchange.
C20_Witness ==
    /\ rpc = "swap"
    /\ nth_fetch = "first"
    /\ ~is_initial
    /\ SharedFresh
    /\ read_index = 2

-----------------------------------------------------------------------------
\* Construction from every triple of initial values, followed by the two
\* threads; the writer stores one value that no constructor argument has.

MaxCtor == 2
CtorValues == {Whole(v) : v \in 0 .. MaxCtor}
WrittenValue == MaxCtor + 1

InitNew3 ==
    /\ \/ \E sv \in CtorValues, wv \in CtorValues, rv \in CtorValues :
              new3(sv, wv, rv) /\ ctor = <<sv, wv, rv>>
       \/ \E value \in CtorValues :
              new_clone(value) /\ ctor = <<value, value, value>>
       \/ new_default /\ ctor = <<T_default, T_default, T_default>>
    /\ InitThreads
    /\ InitExt

New3_get_mut == \E f \in Fields : FlipWriter_with_mut(f, WrittenValue) /\ UNCHANGED <<loomv, extv>>

NextNew3 ==
    \/ New3_get_mut
    \/ Writer_publish
    \/ Reader_fetch_load
    \/ Reader_fetch_swap
    \/ Reader_get_a
    \/ Reader_get_b

SpecNew3 == InitNew3 /\ [][NextNew3]_vars

\* C13: until the first publish() the cell is as new3 built it: slot 0 holds
\* shared_v in flight and not fresh, the writer owns slot 1, which holds
\* writer_v until the writer stores to it, the reader owns slot 2 = reader_v;
\* is_initial is true until the first fetch(); a read before any fetch, or
\* with no publish so far, returns reader_v; the writer's stores before its
\* first publish() go to slot 1 and to no other slot.
C13_Construction ==
    /\ [](~ever_published =>
              /\ shared_state = 0
              /\ write_index = 1
              /\ read_index = 2
              /\ data[0] = ctor[1]
              /\ data[2] = ctor[3]
              /\ clean[1] => data[1] = ctor[2])
    /\ [](nth_fetch = "none" =>
              /\ is_initial
              /\ read_index = 2
              /\ data[2] = ctor[3])
    /\ []((rpc = "read_done" /\ (nth_fetch = "none" \/ ~ever_published)) =>
              rval = ctor[3])
    /\ [][(New3_get_mut /\ ~ever_published) =>
              /\ data'[0] = data[0]
              /\ data'[2] = data[2]
              /\ \E f \in Fields : data'[1] = [data[1] EXCEPT ![f] = WrittenValue]
         ]_vars

\* Built from three different values; the first fetch() came with no publish
\* and the read after it returned reader_v, while the writer has begun to
\* overwrite writer_v.
C13_Witness ==
    /\ ctor = <<Whole(0), Whole(1), Whole(2)>>
    /\ rpc = "read_done"
    /\ nth_fetch = "first"
    /\ ~ever_published
    /\ rval = Whole(2)
    /\ ~clean[1]
    /\ data[1] # Whole(1)

-----------------------------------------------------------------------------
\* The two encodings, applied to every value they can be given.

InitAtom ==
    /\ new_clone(Whole(initial))
    /\ ctor = <<Whole(initial), Whole(initial), Whole(initial)>>
    /\ InitThreads
    /\ atom_pc = "start"
    /\ atom_in \in AtomInputs
    /\ atom_repr = 0
    /\ atom_overflow = FALSE
    /\ atom_out = NoAtom
    /\ new_spectrum_cell
    /\ new3_arcs
    /\ HbOff
    /\ OtherIdle

AtomFrame == UNCHANGED <<cellv, rlocal, ghost, loomv, ctor, syncv, arcv, hbv, otherv, atom_in>>

Atom_pack ==
    /\ atom_pc = "start"
    /\ atom_in.kind = "SpectrumStatus"
    /\ LET packed == SpectrumStatus_pack(atom_in)
       IN  /\ atom_repr' = packed.repr
           /\ atom_overflow' = packed.overflow
    /\ atom_pc' = "packed"
    /\ UNCHANGED atom_out
    /\ AtomFrame

Atom_unpack ==
    /\ atom_pc = "packed"
    /\ atom_in.kind = "SpectrumStatus"
    /\ atom_out' = SpectrumStatus_unpack(atom_repr)
    /\ atom_pc' = "unpacked"
    /\ UNCHANGED <<atom_repr, atom_overflow>>
    /\ AtomFrame

Shared_encode ==
    /\ atom_pc = "start"
    /\ atom_in.kind = "SharedState"
    /\ atom_repr' = SharedState_encode(atom_in.index, atom_in.flag)
    /\ atom_overflow' = (atom_repr' >= 2^U8_BITS)
    /\ atom_pc' = "packed"
    /\ UNCHANGED atom_out
    /\ AtomFrame

Shared_decode ==
    /\ atom_pc = "packed"
    /\ atom_in.kind = "SharedState"
    /\ atom_out' = SharedState_decode(atom_repr)
    /\ atom_pc' = "unpacked"
    /\ UNCHANGED <<atom_repr, atom_overflow>>
    /\ AtomFrame

NextAtom ==
    \/ Atom_pack
    \/ Atom_unpack
    \/ Shared_encode
    \/ Shared_decode

SpecAtom == InitAtom /\ [][NextAtom]_vars

\* C14: decoding the encoding of (index, flag) gives (index, flag) back, for
\* every index in 0..2 and both flags under the flip cell's encoding and for
\* every shared_index in 0..255 and both values of available under
\* SpectrumStatus's pack/unpack; no encoding overflows its representation.
C14_RoundTrip ==
    /\ atom_pc \in {"packed", "unpacked"} =>
           /\ ~atom_overflow
           /\ atom_repr \in 0 .. (IF atom_in.kind = "SpectrumStatus"
                                    THEN 2^U16_BITS - 1 ELSE 2^U8_BITS - 1)
    /\ atom_pc = "unpacked" => atom_out = atom_in

\* The largest SpectrumStatus has gone through pack and unpack: 0xFF01.
C14_Witness ==
    /\ atom_pc = "unpacked"
    /\ atom_in = [kind |-> "SpectrumStatus", index |-> 255, flag |-> TRUE]
    /\ atom_repr = 65281
    /\ atom_out = atom_in

-----------------------------------------------------------------------------
\* sync.rs: a writer thread that publishes and a reader thread that fetches,
\* in any order.

InitSync ==
    /\ new_clone(Whole(initial))
    /\ ctor = <<Whole(initial), Whole(initial), Whole(initial)>>
    /\ InitThreads
    /\ AtomIdle
    /\ new_spectrum_cell
    /\ new3_arcs
    /\ HbOff
    /\ OtherIdle

Sync_get_mut == \E v \in Values : SpectrumWriter_get_mut(v) /\ SyncFrame
Sync_publish == SpectrumWriter_publish /\ SyncFrame
Sync_get == SpectrumReader_get /\ SyncFrame
Sync_fetch_load == SpectrumReader_fetch_load /\ SyncFrame
Sync_fetch_swap == SpectrumReader_fetch_swap /\ SyncFrame

NextSync ==
    \/ Sync_get_mut
    \/ Sync_publish
    \/ Sync_get
    \/ Sync_fetch_load
    \/ Sync_fetch_swap

SpecSync == InitSync /\ [][NextSync]_vars

\* The reader owns the slot that the last publish() published.
ReaderHasLastPublished == sp_read_index = sp_last_pub

\* C17 as stated: publish() returns true exactly when the reader has fetched
\* the value of the previous publish().
C17_Original ==
    [][Sync_publish =>
           (sp_publish_ret' = (sp_last_pub # NoSlot /\ ReaderHasLastPublished))]_vars

\* C17: SpectrumWriter::publish() returns true exactly when there is no
\* previous publish() or the reader has fetched the value of the previous
\* publish(), and false exactly when the previous publish()'s value is still
\* in flight, unfetched, and is being replaced.
C17_PublishReportsSeen ==
    [][Sync_publish =>
           /\ sp_publish_ret' = (sp_last_pub = NoSlot \/ ReaderHasLastPublished)
           /\ ~sp_publish_ret' =>
                  /\ Status_load = SpectrumStatus(sp_last_pub, TRUE)
                  /\ sp_write_index' = sp_last_pub]_vars

\* The first publish() has returned true to a writer whose reader has not
\* called fetch() yet.
C17_Witness ==
    /\ sp_npub = 1
    /\ sp_publish_ret
    /\ sp_is_initial
    /\ sp_last_pub = 1
    /\ Status_load = SpectrumStatus(1, TRUE)

-----------------------------------------------------------------------------
\* The two handles are used by their threads and dropped, in any order.  A
\* handle is dropped between two of its calls.

InitArc ==
    /\ new_clone(Whole(initial))
    /\ ctor = <<Whole(initial), Whole(initial), Whole(initial)>>
    /\ InitThreads
    /\ InitExt

ArcFrame == UNCHANGED <<loomv, ctor, atomv, syncv, hbv, otherv>>
ArcKept == UNCHANGED <<arc_strong, arc_freed, writer_alive, reader_alive>>

Arc_get_mut ==
    /\ writer_alive
    /\ \E f \in Fields : FlipWriter_with_mut(f, MaxVal)
    /\ Arc_deref
    /\ UNCHANGED <<arc_last_pub, arc_fetch_after>>
    /\ ArcKept /\ ArcFrame

Arc_publish ==
    /\ writer_alive
    /\ FlipWriter_publish
    /\ Arc_deref
    /\ arc_last_pub' = data[write_index]
    /\ UNCHANGED arc_fetch_after
    /\ ArcKept /\ ArcFrame

Arc_fetch_load ==
    /\ reader_alive
    /\ FlipReader_fetch_load
    /\ Arc_deref
    /\ arc_fetch_after' = ~writer_alive
    /\ UNCHANGED arc_last_pub
    /\ ArcKept /\ ArcFrame

Arc_fetch_swap ==
    /\ reader_alive
    /\ FlipReader_fetch_swap
    /\ Arc_deref
    /\ UNCHANGED <<arc_last_pub, arc_fetch_after>>
    /\ ArcKept /\ ArcFrame

Arc_get_a ==
    /\ reader_alive
    /\ FlipReader_with_a
    /\ Arc_deref
    /\ UNCHANGED <<arc_last_pub, arc_fetch_after>>
    /\ ArcKept /\ ArcFrame

Arc_get_b ==
    /\ reader_alive
    /\ FlipReader_with_b
    /\ Arc_deref
    /\ UNCHANGED <<arc_last_pub, arc_fetch_after>>
    /\ ArcKept /\ ArcFrame

\* drop(writer)
Arc_drop_writer ==
    /\ writer_alive
    /\ writer_alive' = FALSE
    /\ Arc_drop
    /\ UNCHANGED <<reader_alive, arc_uaf, arc_last_pub, arc_fetch_after>>
    /\ UNCHANGED <<cellv, rlocal, ghost>>
    /\ ArcFrame

\* drop(reader)
Arc_drop_reader ==
    /\ reader_alive
    /\ rpc \in CallPoints
    /\ reader_alive' = FALSE
    /\ Arc_drop
    /\ UNCHANGED <<writer_alive, arc_uaf, arc_last_pub, arc_fetch_after>>
    /\ UNCHANGED <<cellv, rlocal, ghost>>
    /\ ArcFrame

NextArc ==
    \/ Arc_get_mut
    \/ Arc_publish
    \/ Arc_fetch_load
    \/ Arc_fetch_swap
    \/ Arc_get_a
    \/ Arc_get_b
    \/ Arc_drop_writer
    \/ Arc_drop_reader

SpecArc == InitArc /\ [][NextArc]_vars

\* How many handles are alive.
HandlesAlive == (IF writer_alive THEN 1 ELSE 0) + (IF reader_alive THEN 1 ELSE 0)

\* C15: the FlipCell is dropped exactly when both handles have been dropped,
\* in whichever order; no operation of a handle acts on a dropped FlipCell;
\* a reader that outlives the writer can go on fetching, and what it reads
\* after a fetch() begun after the writer's drop is the last value published
\* (the reader's initial value if nothing was published).
C15_SharedOwnership ==
    /\ arc_strong = HandlesAlive
    /\ arc_freed <=> (~writer_alive /\ ~reader_alive)
    /\ ~arc_uaf
    /\ (reader_alive /\ rpc \in CallPoints) => ENABLED Arc_fetch_load
    /\ (reader_alive /\ ~writer_alive /\ arc_fetch_after /\ rpc = "read_done") =>
           rval = IF ever_published THEN arc_last_pub ELSE ctor[3]

\* The writer published and was dropped; the reader then fetched the value
\* left in flight and has read it.
C15_Witness ==
    /\ ~writer_alive
    /\ reader_alive
    /\ ~arc_freed
    /\ arc_fetch_after
    /\ rpc = "read_done"
    /\ ret
    /\ ever_published
    /\ rval = arc_last_pub
    /\ rval = Whole(MaxVal)

-----------------------------------------------------------------------------
\* The two threads as in Spec, with every access to a slot and to shared_state
\* recorded in hb under each pair of orderings the two swaps could be given.
\* The Relaxed load reads the latest word: an older word it could read instead
\* is one the reader's own last swap stored or a later one, so that execution
\* has the accesses of one in which the load was scheduled earlier.

InitHB ==
    /\ new_clone(Whole(initial))
    /\ ctor = <<Whole(initial), Whole(initial), Whole(initial)>>
    /\ InitThreads
    /\ AtomIdle
    /\ new_spectrum_cell
    /\ new3_arcs
    /\ HbStart
    /\ OtherIdle

HbFrame == UNCHANGED <<loomv, ctor, atomv, syncv, arcv, otherv>>

HB_get_mut ==
    /\ \E f \in Fields : FlipWriter_with_mut(f, MaxVal)
    /\ hb' = [c \in OrderingPairs |-> HbStore(hb[c], write_index)]
    /\ hb_written' = [hb_written EXCEPT ![write_index] = TRUE]
    /\ hb_wrote_read' = (hb_wrote_read \/ hb_was_read[write_index])
    /\ UNCHANGED <<hb_was_read, hb_read_written>>
    /\ HbFrame

HB_publish ==
    /\ FlipWriter_publish
    /\ hb' = [c \in OrderingPairs |-> HbWriterSwap(hb[c], c[1])]
    /\ UNCHANGED <<hb_written, hb_was_read, hb_read_written, hb_wrote_read>>
    /\ HbFrame

HB_fetch_load ==
    /\ FlipReader_fetch_load
    /\ hb' = [c \in OrderingPairs |-> HbReaderLoad(hb[c], fetch_load_ordering)]
    /\ UNCHANGED <<hb_written, hb_was_read, hb_read_written, hb_wrote_read>>
    /\ HbFrame

HB_fetch_swap ==
    /\ FlipReader_fetch_swap
    /\ hb' = [c \in OrderingPairs |-> HbReaderSwap(hb[c], c[2])]
    /\ UNCHANGED <<hb_written, hb_was_read, hb_read_written, hb_wrote_read>>
    /\ HbFrame

\* What a read of the reader's slot adds to the record.
HbReaderReads ==
    /\ hb' = [c \in OrderingPairs |-> HbRead(hb[c], read_index)]
    /\ hb_was_read' = [hb_was_read EXCEPT ![read_index] = TRUE]
    /\ hb_read_written' = (hb_read_written \/ hb_written[read_index])
    /\ UNCHANGED <<hb_written, hb_wrote_read>>

HB_get_a ==
    /\ FlipReader_with_a
    /\ HbReaderReads
    /\ HbFrame

HB_get_b ==
    /\ FlipReader_with_b
    /\ HbReaderReads
    /\ HbFrame

NextHB ==
    \/ HB_get_mut
    \/ HB_publish
    \/ HB_fetch_load
    \/ HB_fetch_swap
    \/ HB_get_a
    \/ HB_get_b

SpecHB == InitHB /\ [][NextHB]_vars

\* The orderings the two swaps have in the code.
CodeOrderings == <<publish_ordering, fetch_ordering>>

\* C16: with the orderings of the code (both swaps AcqRel, the load Relaxed)
\* no two accesses to a slot race: the writer's stores to a slot happen-before
\* the reader's reads of it after the fetch() that claims it, and the reader's
\* reads of a slot happen-before the writer's later stores to it.  With a
\* publish() swap that does not release or a fetch() swap that does not
\* acquire, every read of a slot the writer has stored to is a data race; with
\* a fetch() swap that does not release or a publish() swap that does not
\* acquire, every store to a slot the reader has read is a data race.
C16_Orderings ==
    /\ ~hb[CodeOrderings].race
    /\ \A c \in OrderingPairs :
           /\ (hb_read_written /\ ~(Releases(c[1]) /\ Acquires(c[2]))) => hb[c].race
           /\ (hb_wrote_read /\ ~(Releases(c[2]) /\ Acquires(c[1]))) => hb[c].race

\* The reader has read a slot the writer stored to and published, and the
\* writer has stored to a slot the reader read and gave back: every pair of
\* orderings but <<AcqRel, AcqRel>> has raced, and the code's has not.
C16_Witness ==
    /\ hb_read_written
    /\ hb_wrote_read
    /\ ~hb[CodeOrderings].race
    /\ \A c \in OrderingPairs : c # <<"AcqRel", "AcqRel">> => hb[c].race

-----------------------------------------------------------------------------
\* The two threads as in Spec, with a record of which handle put each slot in
\* flight and of the slot the last publish() published.

\* The components that the specifications below leave alone.
oldv == <<loomv, ctor, atomv, syncv, arcv, hbv>>

Own_get_mut ==
    /\ \E f \in Fields : FlipWriter_with_mut(f, MaxVal)
    /\ UNCHANGED <<ownv, delv, sync2v, mainv, fftv, argv, oldv>>

Own_publish ==
    /\ FlipWriter_publish
    /\ own_origin' = [own_origin EXCEPT ![write_index] = "writer"]
    /\ own_last_pub' = write_index
    /\ UNCHANGED <<delv, sync2v, mainv, fftv, argv, oldv>>

Own_fetch_load ==
    /\ FlipReader_fetch_load
    /\ UNCHANGED <<ownv, delv, sync2v, mainv, fftv, argv, oldv>>

Own_fetch_swap ==
    /\ FlipReader_fetch_swap
    /\ own_origin' = [own_origin EXCEPT ![read_index] = "reader"]
    /\ UNCHANGED <<own_last_pub, delv, sync2v, mainv, fftv, argv, oldv>>

Own_get_a ==
    /\ FlipReader_with_a
    /\ UNCHANGED <<ownv, delv, sync2v, mainv, fftv, argv, oldv>>

Own_get_b ==
    /\ FlipReader_with_b
    /\ UNCHANGED <<ownv, delv, sync2v, mainv, fftv, argv, oldv>>

NextOwn ==
    \/ Own_get_mut
    \/ Own_publish
    \/ Own_fetch_load
    \/ Own_fetch_swap
    \/ Own_get_a
    \/ Own_get_b

SpecOwn == Init /\ [][NextOwn]_vars

\* C21: the shared word is fresh exactly when the slot in flight was put
\* there by the writer, that is by a publish() with no exchange of fetch()
\* after it; the word is not fresh at construction, every publish() leaves it
\* fresh and every exchange of fetch() leaves it not fresh.
C21_FreshIffFromWriter ==
    /\ [](SharedFresh <=> own_origin[SharedIndex] = "writer")
    /\ [](~ever_published => ~SharedFresh)
    /\ [][/\ Own_publish => SharedFresh'
          /\ Own_fetch_swap => ~SharedFresh'
          /\ ~(Own_publish \/ Own_fetch_swap) => (SharedFresh' <=> SharedFresh)
         ]_vars

\* After publishes and an exchange the slot in flight is one the reader gave
\* back: the word is not fresh although the writer has published.
C21_Witness ==
    /\ ever_published
    /\ ~SharedFresh
    /\ own_origin[SharedIndex] = "reader"
    /\ own_origin[read_index] = "writer"
    /\ own_origin[write_index] = "writer"

\* C23 as stated: after publish() the writer's new slot is one the reader
\* gave back through a fetch(), or, on the first publish(), holds the initial
\* value given to the constructor.
C23_Original ==
    [][Own_publish =>
           \/ own_origin'[write_index'] = "reader"
           \/ /\ ~ever_published
              /\ own_origin'[write_index'] = "new3"
              /\ data'[write_index'] = ctor[1]]_vars

\* C23: after publish() the writer's new slot is the one that was in flight,
\* and that slot is one of: a slot the reader gave back through a fetch() (the
\* word was not fresh); on the first publish(), the slot holding the
\* constructor's shared_v; or the slot the writer's own previous publish()
\* published, which no fetch() claimed (the word was fresh), still holding
\* that value.
C23_NewWriterSlot ==
    [][Own_publish =>
           /\ write_index' = SharedIndex
           /\ \/ /\ own_origin'[write_index'] = "reader"
                 /\ ~SharedFresh
                 /\ ever_published
              \/ /\ own_origin'[write_index'] = "new3"
                 /\ ~SharedFresh
                 /\ ~ever_published
                 /\ data'[write_index'] = ctor[1]
              \/ /\ own_origin'[write_index'] = "writer"
                 /\ SharedFresh
                 /\ write_index' = own_last_pub
                 /\ clean'[write_index']]_vars

\* Two publishes with no exchange between them: the writer is back on the
\* slot it published first, which nothing has read.
C23_Witness ==
    /\ SharedFresh
    /\ own_origin[write_index] = "writer"
    /\ clean[write_index]
    /\ data[write_index] = Whole(MaxVal)
    /\ nth_fetch = "none"

\* C24: once a publish() has completed, the slot of the last published value
\* is the slot in flight (word fresh) or the reader's slot, never the
\* writer's, and it has not been stored to since it was published; a store of
\* the writer goes to another slot.
C24_LatestNotWriters ==
    /\ [](ever_published =>
              /\ own_last_pub # write_index
              /\ \/ own_last_pub = SharedIndex /\ SharedFresh
                 \/ own_last_pub = read_index
              /\ clean[own_last_pub])
    /\ [][(Own_get_mut /\ ever_published) =>
              data'[own_last_pub] = data[own_last_pub]]_vars

\* The reader has claimed the last published value and the writer is storing
\* to another slot.
C24_Witness ==
    /\ ever_published
    /\ own_last_pub = read_index
    /\ ~SharedFresh
    /\ rpc = "read_done"
    /\ rval = Whole(MaxVal)
    /\ ~clean[write_index]

\* C25: publish() changes only the shared word and the writer's index;
\* fetch() changes only the shared word, the reader's index and is_initial
\* (its early return changes only is_initial); neither changes the content of
\* a slot or the other handle's index; a store of the writer changes one field
\* of the slot at write_index and nothing else of the cell; a read changes
\* nothing of the cell.
C25_FrameEffects ==
    [][/\ Own_publish => UNCHANGED <<data, read_index, is_initial>>
       /\ Own_fetch_load => UNCHANGED <<data, shared_state, write_index, read_index>>
       /\ Own_fetch_swap => UNCHANGED <<data, write_index, is_initial>>
       /\ Own_get_mut =>
              /\ UNCHANGED <<shared_state, write_index, read_index, is_initial>>
              /\ \A i \in Slots \ {write_index} : data'[i] = data[i]
              /\ \E f \in Fields :
                     data'[write_index] = [data[write_index] EXCEPT ![f] = MaxVal]
       /\ (Own_get_a \/ Own_get_b) => UNCHANGED cellv
      ]_vars

\* A publish() and an exchanging fetch() have moved the three slots between
\* their owners with each slot's content as it was: the reader holds the
\* value stored to slot 1, the other two slots hold the initial value.
C25_Witness ==
    /\ rpc = "fetched"
    /\ fetch_swaps = 1
    /\ read_index = 1
    /\ SharedIndex = 2
    /\ write_index = 0
    /\ data[1] = Whole(MaxVal)
    /\ data[2] = Whole(initial)
    /\ data[0] = Whole(initial)

-----------------------------------------------------------------------------
\* A writer that publishes some number of times and then publishes no more,
\* and a reader that goes on calling fetch() and then reading, for ever.

Del_get_mut ==
    /\ \E f \in Fields : FlipWriter_with_mut(f, MaxVal)
    /\ UNCHANGED <<ownv, delv, sync2v, mainv, fftv, argv, oldv>>

Del_publish ==
    /\ ~del_stopped
    /\ FlipWriter_publish
    /\ own_origin' = [own_origin EXCEPT ![write_index] = "writer"]
    /\ own_last_pub' = write_index
    /\ del_delivered' = FALSE
    /\ UNCHANGED <<del_stopped, sync2v, mainv, fftv, argv, oldv>>

\* The writer's last publish() call is behind it.
Del_stop ==
    /\ ~del_stopped
    /\ del_stopped' = TRUE
    /\ UNCHANGED <<cellv, rlocal, ghost, ownv, del_delivered, sync2v, mainv, fftv, argv, oldv>>

Del_fetch_load ==
    /\ rpc # "fetched"
    /\ FlipReader_fetch_load
    /\ UNCHANGED <<ownv, delv, sync2v, mainv, fftv, argv, oldv>>

Del_fetch_swap ==
    /\ FlipReader_fetch_swap
    /\ own_origin' = [own_origin EXCEPT ![read_index] = "reader"]
    /\ UNCHANGED <<own_last_pub, delv, sync2v, mainv, fftv, argv, oldv>>

Del_get_a ==
    /\ rpc = "fetched"
    /\ FlipReader_with_a
    /\ UNCHANGED <<ownv, delv, sync2v, mainv, fftv, argv, oldv>>

Del_get_b ==
    /\ FlipReader_with_b
    /\ del_delivered' = (del_delivered \/ (ret /\ read_index = own_last_pub))
    /\ UNCHANGED <<ownv, del_stopped, sync2v, mainv, fftv, argv, oldv>>

\* The reader thread's loop: fetch(), then get().
DelReader ==
    \/ Del_fetch_load
    \/ Del_fetch_swap
    \/ Del_get_a
    \/ Del_get_b

NextDeliver ==
    \/ Del_get_mut
    \/ Del_publish
    \/ Del_stop
    \/ DelReader

\* The reader thread is scheduled again and again.
SpecDeliver == Init /\ [][NextDeliver]_vars /\ WF_vars(DelReader)

\* C22: once the writer has published at least once and publishes no more, a
\* fetch() that returns true is followed by a read of the last published value
\* (if that has not happened already); from then on every fetch() returns
\* false and every read yields the last published value.
C22_EventualDelivery ==
    /\ (del_stopped /\ ever_published) ~> del_delivered
    /\ [](del_delivered =>
              /\ read_index = own_last_pub
              /\ rpc = "read_done" => rval = data[own_last_pub])
    /\ [][(del_stopped /\ del_delivered /\ (Del_fetch_load \/ Del_fetch_swap)) =>
              (rpc' = "fetched" /\ ~ret')]_vars

\* The writer stopped with its last value in flight; the reader has fetched
\* it, read it, and fetched again to be told there is nothing new.
C22_Witness ==
    /\ del_stopped
    /\ del_delivered
    /\ rpc = "fetched"
    /\ ~ret
    /\ nth_fetch = "later"
    /\ read_index = own_last_pub
    /\ data[read_index] = Whole(MaxVal)

-----------------------------------------------------------------------------
\* sync2.rs: a cell whose handle pairs are made by into_arc() or get_ref(),
\* used by a writer thread and a reader thread in any order, and dropped;
\* get_ref() may then be called again.

Sync2Frame == UNCHANGED <<cellv, rlocal, ghost, ownv, delv, mainv, fftv, argv, oldv>>

S2_into_arc == FlipCell2_into_arc /\ Sync2Frame
S2_get_ref == FlipCell2_get_ref /\ Sync2Frame
S2_drop_handles == FlipCell2_drop_handles /\ Sync2Frame
S2_get_mut == \E v \in Values : FlipWriter2_get_mut(v) /\ Sync2Frame
S2_publish == FlipWriter2_publish /\ Sync2Frame
S2_get == FlipReader2_get /\ Sync2Frame
S2_fetch_load == FlipReader2_fetch_load /\ Sync2Frame
S2_fetch_swap == FlipReader2_fetch_swap /\ Sync2Frame

NextSync2 ==
    \/ S2_into_arc
    \/ S2_get_ref
    \/ S2_drop_handles
    \/ S2_get_mut
    \/ S2_publish
    \/ S2_get
    \/ S2_fetch_load
    \/ S2_fetch_swap

SpecSync2 == Init /\ [][NextSync2]_vars

\* C27: into_arc() and get_ref() leave the shared word at index 0 not fresh,
\* the writer on slot 1, the reader on slot 2 and is_initial true, whatever
\* the shared word was, and keep the slots' contents; while a handle pair
\* exists, the three indices are a permutation of 0..2.
C27_HandlesStartAfresh ==
    /\ [][(S2_into_arc \/ S2_get_ref) =>
              /\ s2_shared_state' = 0
              /\ s2_write_index' = 1
              /\ s2_read_index' = 2
              /\ s2_is_initial' = TRUE
              /\ s2_data' = s2_data]_vars
    /\ [](s2_write_index # NoSlot =>
              {BitAnd(s2_shared_state, INDEX_MASK), s2_write_index, s2_read_index} = Slots)

\* get_ref() was called on a cell whose earlier handle pair had left the word
\* fresh on slot 2 and a stored value in a slot: the new pair starts from
\* (0, 1, 2), and the reader's first fetch() has returned true on slot 2.
C27_Witness ==
    /\ s2_kind = "ref"
    /\ s2_prev_word = 2 + FRESH_FLAG
    /\ s2_shared_state = 0
    /\ s2_write_index = 1
    /\ s2_read_index = 2
    /\ s2_rpc = "fetched"
    /\ s2_ret
    /\ s2_data[2] # NewFrame

-----------------------------------------------------------------------------
\* The three implementations side by side: flip-cell/src/lib.rs, src/sync.rs
\* and src/sync2.rs take every step of the same schedule together.

TriFrame == UNCHANGED <<loomv, ctor, atomv, arcv, hbv, ownv, delv, mainv, fftv, argv>>

\* sync2.rs makes its handles in a separate call; the other two are born with theirs.
Tri_into_arc ==
    /\ FlipCell2_into_arc
    /\ UNCHANGED <<cellv, rlocal, ghost, syncv>>
    /\ TriFrame

Tri_get_ref ==
    /\ FlipCell2_get_ref
    /\ UNCHANGED <<cellv, rlocal, ghost, syncv>>
    /\ TriFrame

Tri_get_mut ==
    /\ s2_kind \in {"arc", "ref"}
    /\ \E f \in Fields :
          /\ FlipWriter_with_mut(f, MaxVal)
          /\ SpectrumWriter_get_mut(MaxVal)
          /\ FlipWriter2_get_mut(MaxVal)
    /\ TriFrame

Tri_publish ==
    /\ s2_kind \in {"arc", "ref"}
    /\ FlipWriter_publish
    /\ SpectrumWriter_publish
    /\ FlipWriter2_publish
    /\ TriFrame

Tri_fetch_load ==
    /\ s2_kind \in {"arc", "ref"}
    /\ FlipReader_fetch_load
    /\ SpectrumReader_fetch_load
    /\ FlipReader2_fetch_load
    /\ TriFrame

Tri_fetch_swap ==
    /\ s2_kind \in {"arc", "ref"}
    /\ FlipReader_fetch_swap
    /\ SpectrumReader_fetch_swap
    /\ FlipReader2_fetch_swap
    /\ TriFrame

NextTriple ==
    \/ Tri_into_arc
    \/ Tri_get_ref
    \/ Tri_get_mut
    \/ Tri_publish
    \/ Tri_fetch_load
    \/ Tri_fetch_swap

SpecTriple == Init /\ [][NextTriple]_vars

\* C26: run side by side on one schedule of publish and fetch steps, the three
\* implementations keep equal writer index, reader index, in-flight index,
\* freshness flag and "never fetched" flag, their readers stand at the same
\* point of fetch() (so each can take whatever step the others can), and every
\* fetch returns the same boolean in all three.
C26_ThreeImplementationsAgree ==
    s2_kind \in {"arc", "ref"} =>
        /\ write_index = sp_write_index /\ write_index = s2_write_index
        /\ read_index = sp_read_index /\ read_index = s2_read_index
        /\ SharedIndex = Status_load.index
        /\ SharedIndex = BitAnd(s2_shared_state, INDEX_MASK)
        /\ SharedFresh = Status_load.flag
        /\ SharedFresh = (BitAnd(s2_shared_state, FRESH_FLAG) = FRESH_FLAG)
        /\ is_initial = sp_is_initial /\ is_initial = s2_is_initial
        /\ rpc = sp_rpc /\ rpc = s2_rpc
        /\ ret = sp_fetch_ret /\ ret = s2_ret

\* All three have published twice around a fetch that returned true in each.
C26_Witness ==
    /\ s2_kind \in {"arc", "ref"}
    /\ rpc = "fetched" /\ sp_rpc = "fetched" /\ s2_rpc = "fetched"
    /\ ret /\ sp_fetch_ret /\ s2_ret
    /\ read_index = 1 /\ sp_read_index = 1 /\ s2_read_index = 1
    /\ SharedFresh /\ Status_load.flag /\ s2_shared_state = 2 + FRESH_FLAG
    /\ write_index = 0 /\ sp_write_index = 0 /\ s2_write_index = 0

-----------------------------------------------------------------------------
\* src/main.rs: the audio callback hands spectra to the redraw handler through
\* NEXT_FFT and FFT_AVAILABLE.

\* The callback is given at most MaxSpectra spectra.
MaxSpectra == 3

MainFrame == UNCHANGED <<cellv, rlocal, ghost, ownv, delv, sync2v, fftv, argv, oldv>>

\* let mut received_fft = new_spectrum_box(); then the event loop starts
new_received_fft ==
    /\ main_pc = "setup"
    /\ received_fft' = 2
    /\ main_pc' = "idle"
    /\ UNCHANGED <<NEXT_FFT, FFT_AVAILABLE, scratch_fft, fft_box, cb_pc,
                   fft_produced, fft_shown, fft_stopped>>
    /\ MainFrame

\* spectrum_callback: expect() and copy_from_slice(spectrum)
spectrum_callback_copy ==
    /\ cb_pc = "idle"
    /\ ~fft_stopped
    /\ fft_produced < MaxSpectra
    /\ IF scratch_fft = NoBox
         THEN /\ cb_pc' = "panic"
              /\ UNCHANGED <<fft_box, fft_produced>>
         ELSE /\ fft_box' = [fft_box EXCEPT ![scratch_fft] = fft_produced + 1]
              /\ fft_produced' = fft_produced + 1
              /\ cb_pc' = "swap"
    /\ UNCHANGED <<NEXT_FFT, FFT_AVAILABLE, scratch_fft, received_fft, main_pc,
                   fft_shown, fft_stopped>>
    /\ MainFrame

\* A callback that stores its box into NEXT_FFT and takes none back.
spectrum_callback_swap_as_store ==
    /\ cb_pc = "swap"
    /\ NEXT_FFT' = scratch_fft
    /\ scratch_fft' = NoBox
    /\ cb_pc' = "store"
    /\ UNCHANGED <<FFT_AVAILABLE, received_fft, fft_box, main_pc,
                   fft_produced, fft_shown, fft_stopped>>
    /\ MainFrame

\* spectrum_callback: scratch_fft = NEXT_FFT.swap(scratch_fft.take(), AcqRel)
spectrum_callback_swap ==
    /\ cb_pc = "swap"
    /\ NEXT_FFT' = scratch_fft
    /\ scratch_fft' = NEXT_FFT
    /\ cb_pc' = "store"
    /\ UNCHANGED <<FFT_AVAILABLE, received_fft, fft_box, main_pc,
                   fft_produced, fft_shown, fft_stopped>>
    /\ MainFrame

\* spectrum_callback: FFT_AVAILABLE.store(true, Release)
spectrum_callback_store ==
    /\ cb_pc = "store"
    /\ FFT_AVAILABLE' = TRUE
    /\ cb_pc' = "idle"
    /\ UNCHANGED <<NEXT_FFT, scratch_fft, received_fft, fft_box, main_pc,
                   fft_produced, fft_shown, fft_stopped>>
    /\ MainFrame

\* The input stream calls its data callback no more.
stream_stops ==
    /\ cb_pc = "idle"
    /\ fft_produced >= 1
    /\ ~fft_stopped
    /\ fft_stopped' = TRUE
    /\ UNCHANGED <<NEXT_FFT, FFT_AVAILABLE, scratch_fft, received_fft, fft_box, cb_pc,
                   main_pc, fft_produced, fft_shown>>
    /\ MainFrame

\* Event::RedrawRequested: if FFT_AVAILABLE.load(Acquire)
RedrawRequested_load ==
    /\ main_pc = "idle"
    /\ main_pc' = IF FFT_AVAILABLE THEN "store" ELSE "update"
    /\ UNCHANGED <<NEXT_FFT, FFT_AVAILABLE, scratch_fft, received_fft, fft_box, cb_pc,
                   fft_produced, fft_shown, fft_stopped>>
    /\ MainFrame

\* Event::RedrawRequested: FFT_AVAILABLE.store(false, Relaxed)
RedrawRequested_store ==
    /\ main_pc = "store"
    /\ FFT_AVAILABLE' = FALSE
    /\ main_pc' = "swap"
    /\ UNCHANGED <<NEXT_FFT, scratch_fft, received_fft, fft_box, cb_pc,
                   fft_produced, fft_shown, fft_stopped>>
    /\ MainFrame

\* Event::RedrawRequested: received_fft = NEXT_FFT.swap(received_fft.take(), AcqRel)
\* and assert!(received_fft.is_some())
RedrawRequested_swap ==
    /\ main_pc = "swap"
    /\ NEXT_FFT' = received_fft
    /\ received_fft' = NEXT_FFT
    /\ main_pc' = IF NEXT_FFT = NoBox THEN "panic" ELSE "update"
    /\ UNCHANGED <<FFT_AVAILABLE, scratch_fft, fft_box, cb_pc,
                   fft_produced, fft_shown, fft_stopped>>
    /\ MainFrame

\* Event::RedrawRequested: state.update(received_fft.as_ref().expect(..)); state.render()
RedrawRequested_update ==
    /\ main_pc = "update"
    /\ IF received_fft = NoBox
         THEN /\ main_pc' = "panic"
              /\ UNCHANGED fft_shown
         ELSE /\ fft_shown' = fft_box[received_fft]
              /\ main_pc' = "idle"
    /\ UNCHANGED <<NEXT_FFT, FFT_AVAILABLE, scratch_fft, received_fft, fft_box, cb_pc,
                   fft_produced, fft_stopped>>
    /\ MainFrame

\* The main thread: MainEventsCleared requests a redraw after every redraw.
MainThread ==
    \/ new_received_fft
    \/ RedrawRequested_load
    \/ RedrawRequested_store
    \/ RedrawRequested_swap
    \/ RedrawRequested_update

NextMain ==
    \/ new_received_fft
    \/ spectrum_callback_copy
    \/ spectrum_callback_swap
    \/ spectrum_callback_store
    \/ stream_stops
    \/ RedrawRequested_load
    \/ RedrawRequested_store
    \/ RedrawRequested_swap
    \/ RedrawRequested_update

SpecMain == Init /\ [][NextMain]_vars /\ WF_vars(MainThread)

\* C28: once received_fft is installed the three holders hold the three boxes,
\* one each, so every holder is Some whenever it is used: nothing panics, the
\* callback's scratch_fft is Some when it copies, the box the redraw handler
\* swaps out of NEXT_FFT is Some, received_fft is Some when passed to update;
\* and each swap exchanges the two boxes of its two holders.
C28_HoldersNeverEmpty ==
    /\ [](/\ cb_pc # "panic" /\ main_pc # "panic"
          /\ {NEXT_FFT, scratch_fft} \subseteq Boxes
          /\ NEXT_FFT # scratch_fft
          /\ main_pc = "setup" => received_fft = NoBox
          /\ main_pc # "setup" => {NEXT_FFT, scratch_fft, received_fft} = Boxes)
    /\ [][/\ spectrum_callback_swap =>
                /\ NEXT_FFT' = scratch_fft /\ scratch_fft' = NEXT_FFT
                /\ received_fft' = received_fft
                /\ scratch_fft' \in Boxes
          /\ RedrawRequested_swap =>
                /\ NEXT_FFT' = received_fft /\ received_fft' = NEXT_FFT
                /\ scratch_fft' = scratch_fft
                /\ received_fft' \in Boxes
          /\ RedrawRequested_update => received_fft \in Boxes /\ main_pc' = "idle"
          /\ spectrum_callback_copy => scratch_fft \in Boxes /\ cb_pc' = "swap"]_vars

\* The redraw handler has swapped a spectrum out of NEXT_FFT, between two
\* swaps of the callback, and passed it to update.
C28_Witness ==
    /\ main_pc = "idle"
    /\ cb_pc = "store"
    /\ fft_produced = 2
    /\ fft_shown = 1
    /\ received_fft = 1 /\ scratch_fft = 2 /\ NEXT_FFT = 0
    /\ fft_box[NEXT_FFT] = 2

\* C29: the spectra the redraw handler passes to update never go back in the
\* order the callback produced them.
C29_NeverOlder == [][fft_shown' >= fft_shown]_vars

\* C30: once the stream has stopped after at least one spectrum, from some
\* point on the spectrum passed to update is always the last one produced.
C30_EventuallyLatest == [](fft_stopped => <>[](fft_shown = fft_produced))

\* The stream has stopped and the last spectrum lies in NEXT_FFT with
\* FFT_AVAILABLE false, while every redraw shows an older one.
C30_Stuck ==
    /\ fft_stopped
    /\ main_pc = "idle"
    /\ ~FFT_AVAILABLE
    /\ fft_box[NEXT_FFT] = fft_produced
    /\ fft_shown = fft_box[received_fft]
    /\ fft_shown < fft_produced

-----------------------------------------------------------------------------
\* src/fft.rs: FftBuffer

\* Configurations have size 0..MaxSize and redraw_interval 0..MaxSize+1.
MaxSize == 4
\* push() is given at most MaxFrames whole frames in all, at most MaxInput samples a call.
MaxFrames == 8
MaxInput == 4

\* u16 values of cfg.channels
ChannelCounts == 0 .. 2

\* vec![FftSample::zero(); spectrum_size]. A spectrum is known by the number
\* of the FFT that computed it and the first and last frame of that FFT's input.
ZeroSpectrum == [fft |-> 0, first |-> 0, last |-> 0]

\* realfft::RealToComplex::<f32>::new(length): whether it may return Ok, Err.
\* The crate is not part of the sources; an even length is accepted, and
\* whether an odd one is depends on the crate's version.
RealToComplex_new(length) == IF length % 2 = 0 THEN {TRUE} ELSE {TRUE, FALSE}

\* new() that does not compare size / redraw_interval * redraw_interval with size.
FftBuffer_new_asserts_no_factor(cfg) ==
    /\ cfg.size >= 2
    /\ cfg.channels >= 1
    /\ cfg.redraw_interval <= cfg.size
    /\ cfg.redraw_interval # 0

\* The asserts of FftBuffer::new and the division they contain, in order.
FftBuffer_new_asserts(cfg) ==
    /\ cfg.size >= 2
    /\ cfg.channels >= 1
    /\ cfg.redraw_interval <= cfg.size
    /\ cfg.redraw_interval # 0
    /\ (cfg.size \div cfg.redraw_interval) * cfg.redraw_interval = cfg.size

\* History::new(item, count)
History_new(item, count) == [items |-> [i \in 1 .. count |-> item], index |-> 0]

\* FftBuffer::new
FftBuffer_new ==
    /\ fb_pc = "config"
    /\ IF ~FftBuffer_new_asserts(fb_cfg)
         THEN /\ fb_pc' = "panic"
              /\ UNCHANGED <<fb_items, fb_index>>
         ELSE \E ok \in RealToComplex_new(fb_cfg.size) :
                IF ~ok
                  THEN /\ fb_pc' = "unwrap"
                       /\ UNCHANGED <<fb_items, fb_index>>
                  ELSE LET history_len == fb_cfg.size \div fb_cfg.redraw_interval
                           h == History_new(ZeroSpectrum, history_len + 1)
                       IN  /\ fb_pc' = "built"
                           /\ fb_items' = h.items
                           /\ fb_index' = h.index
    /\ UNCHANGED <<fb_cfg, fb_buffer, fb_calls, fb_frames>>

\* History::oldest_idx; items are numbered from 1 here, index counts from 0.
oldest_idx(h) == (h.index + 1) % Len(h.items)

\* History::advance_newest that steps backwards.
advance_newest_backwards(h) ==
    [h EXCEPT !.index = (h.index + Len(h.items) - 1) % Len(h.items)]

\* History::advance_newest
advance_newest(h) == [h EXCEPT !.index = (h.index + 1) % Len(h.items)]

\* run_fft() on the buffer b, as the k-th FFT
run_fft(h, b, k) ==
    LET adv == advance_newest(h)
    IN  [adv EXCEPT !.items[adv.index + 1] = [fft |-> k, first |-> b[1], last |-> b[Len(b)]]]

\* push() in which every frame that finds the buffer full runs an FFT and
\* nothing is drained.
push_frame_no_drain(st) ==
    LET number == st.frames + 1
        pushed == Append(st.buffer, number)
    IN  IF Len(pushed) >= fb_cfg.size
          THEN LET h == run_fft(st.h, pushed, Len(st.calls) + 1)
               IN  [buffer |-> pushed,
                    h      |-> h,
                    calls  |-> Append(st.calls,
                                 [spectrum      |-> h.items[h.index + 1],
                                  prev_spectrum |-> h.items[oldest_idx(h) + 1],
                                  replaced      |-> st.h.items[h.index + 1]]),
                    frames |-> number]
          ELSE [st EXCEPT !.buffer = pushed, !.frames = number]

\* One iteration of push()'s loop over the frames. A call of fft_callback is
\* recorded with the history entry its FFT has overwritten.
push_frame(st) ==
    LET number == st.frames + 1
        pushed == Append(st.buffer, number)
    IN  IF Len(pushed) = fb_cfg.size
          THEN LET h == run_fft(st.h, pushed, Len(st.calls) + 1)
               IN  [buffer |-> SubSeq(pushed, fb_cfg.redraw_interval + 1, Len(pushed)),
                    h      |-> h,
                    calls  |-> Append(st.calls,
                                 [spectrum      |-> h.items[h.index + 1],
                                  prev_spectrum |-> h.items[oldest_idx(h) + 1],
                                  replaced      |-> st.h.items[h.index + 1]]),
                    frames |-> number]
          ELSE [st EXCEPT !.buffer = pushed, !.frames = number]

RECURSIVE push_frames(_, _)
push_frames(st, count) ==
    IF count = 0 THEN st ELSE push_frames(push_frame(st), count - 1)

\* FftBuffer::push on an input of `len` samples
FftBuffer_push ==
    /\ fb_pc = "built"
    /\ \E len \in 0 .. MaxInput :
          LET frames == len \div fb_cfg.channels
              st == push_frames([buffer |-> fb_buffer,
                                 h      |-> [items |-> fb_items, index |-> fb_index],
                                 calls  |-> fb_calls,
                                 frames |-> fb_frames], frames)
          IN  /\ fb_frames + frames <= MaxFrames
              /\ fb_buffer' = st.buffer
              /\ fb_items' = st.h.items
              /\ fb_index' = st.h.index
              /\ fb_calls' = st.calls
              /\ fb_frames' = st.frames
    /\ UNCHANGED <<fb_pc, fb_cfg>>

FftConfigs ==
    [size : 0 .. MaxSize, redraw_interval : 0 .. MaxSize + 1, channels : ChannelCounts]

InitFft ==
    /\ new_clone(Whole(initial))
    /\ ctor = <<Whole(initial), Whole(initial), Whole(initial)>>
    /\ InitThreads
    /\ AtomIdle /\ new_spectrum_cell /\ new3_arcs /\ HbOff
    /\ OwnStart /\ DelStart /\ FlipCell2_new_default /\ MainStart /\ ArgOff
    /\ fb_pc = "config"
    /\ fb_cfg \in FftConfigs
    /\ fb_buffer = <<>>
    /\ fb_items = <<>>
    /\ fb_index = 0
    /\ fb_calls = <<>>
    /\ fb_frames = 0

FftFrame == UNCHANGED <<cellv, rlocal, ghost, ownv, delv, sync2v, mainv, argv, oldv>>

Fft_new == FftBuffer_new /\ FftFrame
Fft_push == FftBuffer_push /\ FftFrame

NextFft ==
    \/ Fft_new
    \/ Fft_push

SpecFft == InitFft /\ [][NextFft]_vars

\* C31: after n whole frames in all, however split across the calls of push,
\* fft_callback has been called 0 times if n < size and
\* 1 + floor((n - size) / redraw_interval) times otherwise, and the buffer
\* holds the frames that the last call has not drained.
C31_CallbackCount ==
    fb_pc = "built" =>
        /\ Len(fb_calls) = IF fb_frames < fb_cfg.size
                             THEN 0
                             ELSE 1 + ((fb_frames - fb_cfg.size) \div fb_cfg.redraw_interval)
        /\ Len(fb_buffer) < fb_cfg.size
        /\ Len(fb_buffer) = fb_frames - Len(fb_calls) * fb_cfg.redraw_interval

\* Five calls after seven frames of two samples each, of a size of 3 advancing by 1.
C31_Witness ==
    /\ fb_pc = "built"
    /\ fb_cfg.size = 3 /\ fb_cfg.redraw_interval = 1 /\ fb_cfg.channels = 2
    /\ fb_frames = 7
    /\ Len(fb_calls) = 5
    /\ fb_buffer = <<6, 7>>

\* C32: at the k-th call of fft_callback, `spectrum` is the one the k-th FFT
\* computed, from the size frames ending with the one just pushed;
\* `prev_spectrum` is the one FFT number k - size/redraw_interval computed,
\* whose input ends where the current input begins, or the zero spectrum while
\* k <= size/redraw_interval; and the entry each FFT overwrites is the one
\* that was oldest at the call before it.
C32_SpectrumAndPrevious ==
    fb_pc = "built" =>
        LET H == fb_cfg.size \div fb_cfg.redraw_interval
        IN  \A k \in 1 .. Len(fb_calls) :
              LET call == fb_calls[k]
              IN  /\ call.spectrum = [fft   |-> k,
                                      first |-> (k - 1) * fb_cfg.redraw_interval + 1,
                                      last  |-> (k - 1) * fb_cfg.redraw_interval + fb_cfg.size]
                  /\ k <= H => call.prev_spectrum = ZeroSpectrum
                  /\ k > H => /\ call.prev_spectrum = fb_calls[k - H].spectrum
                              /\ call.prev_spectrum.last + 1 = call.spectrum.first
                  /\ call.replaced = IF k = 1 THEN ZeroSpectrum
                                              ELSE fb_calls[k - 1].prev_spectrum

\* The third FFT of a size of 4 advancing by 2 is compared with the first.
C32_Witness ==
    /\ fb_pc = "built"
    /\ fb_cfg.size = 4 /\ fb_cfg.redraw_interval = 2
    /\ Len(fb_calls) = 3
    /\ fb_calls[3].spectrum = [fft |-> 3, first |-> 5, last |-> 8]
    /\ fb_calls[3].prev_spectrum = [fft |-> 1, first |-> 1, last |-> 4]
    /\ fb_calls[3].replaced = ZeroSpectrum
    /\ fb_index = 0

-----------------------------------------------------------------------------
\* src/main.rs: parse_fft_size

MIN_FFT_SIZE == 4
MAX_FFT_SIZE == 16384

\* Arguments have at most MaxLen characters.
MaxLen == 5

\* The characters arguments are made of, and the value of those that are digits
Chars == {"+", "-", "x", "0", "1", "3", "4", "6", "8"}
DigitValue == [c \in {"0", "1", "3", "4", "6", "8"} |-> 
                  CASE c = "0" -> 0 [] c = "1" -> 1 [] c = "3" -> 3
                    [] c = "4" -> 4 [] c = "6" -> 6 [] c = "8" -> 8]

\* usize::from_str_radix(digits, 10) after the sign: every character must be
\* a digit; acc is the value of those read so far. (No argument of MaxLen
\* characters reaches usize::MAX, so the checked arithmetic never fails.)
RECURSIVE from_digits(_, _)
from_digits(digits, acc) ==
    IF digits = <<>>
      THEN [kind |-> "Ok", value |-> acc]
      ELSE IF Head(digits) \notin DOMAIN DigitValue
             THEN [kind |-> "Err", value |-> 0]
             ELSE from_digits(Tail(digits), acc * 10 + DigitValue[Head(digits)])

\* src.parse::<usize>(): empty, or a sign alone, is an error; one leading "+"
\* is skipped; "-" is no digit of an unsigned type.
parse_usize(src) ==
    IF src = <<>> \/ src \in {<<"+">>, <<"-">>}
      THEN [kind |-> "Err", value |-> 0]
      ELSE from_digits(IF Head(src) = "+" THEN Tail(src) ELSE src, 0)

\* parse_fft_size that tests for an odd number before it tests the range.
parse_fft_size_odd_first(src) ==
    LET num == parse_usize(src)
    IN  IF num.kind = "Err" THEN [kind |-> "must be an integer", value |-> 0]
        ELSE IF num.value % 2 # 0 THEN [kind |-> "must be even", value |-> 0]
        ELSE IF num.value > MAX_FFT_SIZE THEN [kind |-> "must be <=", value |-> 0]
        ELSE IF num.value < MIN_FFT_SIZE THEN [kind |-> "must be >=", value |-> 0]
        ELSE [kind |-> "Ok", value |-> num.value]

\* parse_fft_size; an error is known by its message.
parse_fft_size(src) ==
    LET num == parse_usize(src)
    IN  IF num.kind = "Err" THEN [kind |-> "must be an integer", value |-> 0]
        ELSE IF num.value > MAX_FFT_SIZE THEN [kind |-> "must be <=", value |-> 0]
        ELSE IF num.value < MIN_FFT_SIZE THEN [kind |-> "must be >=", value |-> 0]
        ELSE IF num.value % 2 # 0 THEN [kind |-> "must be even", value |-> 0]
        ELSE [kind |-> "Ok", value |-> num.value]

RECURSIVE Strings(_)
Strings(n) ==
    IF n = 0 THEN {<<>>}
    ELSE LET shorter == Strings(n - 1)
         IN  shorter \cup {Append(s, c) : s \in {t \in shorter : Len(t) = n - 1}, c \in Chars}

InitArg ==
    /\ new_clone(Whole(initial))
    /\ ctor = <<Whole(initial), Whole(initial), Whole(initial)>>
    /\ InitThreads
    /\ AtomIdle /\ new_spectrum_cell /\ new3_arcs /\ HbOff
    /\ OwnStart /\ DelStart /\ FlipCell2_new_default /\ MainStart /\ FftOff
    /\ arg_src \in Strings(MaxLen)
    /\ arg_ret = NoResult

\* structopt calls parse_fft_size on the argument.
Arg_parse ==
    /\ arg_ret = NoResult
    /\ arg_ret' = parse_fft_size(arg_src)
    /\ UNCHANGED <<arg_src, cellv, rlocal, ghost, ownv, delv, sync2v, mainv, fftv, oldv>>

NextArg == Arg_parse

SpecArg == InitArg /\ [][NextArg]_vars

\* C34: parse_fft_size returns Ok(n) exactly when the argument is a decimal
\* numeral (digits, after at most one "+") of an even value n with
\* 4 <= n <= 16384; otherwise it returns the error of the first of these that
\* applies: not such a numeral (a "-" makes it none: the target is unsigned),
\* greater than the maximum, less than the minimum, odd.
C34_ParseFftSize ==
    arg_ret # NoResult =>
        LET digits  == IF arg_src # <<>> /\ Head(arg_src) = "+" THEN Tail(arg_src) ELSE arg_src
            numeral == /\ digits # <<>>
                       /\ \A i \in 1 .. Len(digits) : digits[i] \in {"0", "1", "3", "4", "6", "8"}
            Pow10[e \in 0 .. MaxLen + 1] == IF e = 0 THEN 1 ELSE 10 * Pow10[e - 1]
            Partial[i \in 0 .. Len(digits)] ==
                IF i = 0 THEN 0
                ELSE Partial[i - 1] + DigitValue[digits[i]] * Pow10[Len(digits) - i]
            n       == Partial[Len(digits)]
        IN  IF ~numeral THEN arg_ret = [kind |-> "must be an integer", value |-> 0]
            ELSE IF n > 16384 THEN arg_ret = [kind |-> "must be <=", value |-> 0]
            ELSE IF n < 4 THEN arg_ret = [kind |-> "must be >=", value |-> 0]
            ELSE IF n % 2 = 1 THEN arg_ret = [kind |-> "must be even", value |-> 0]
            ELSE arg_ret = [kind |-> "Ok", value |-> n]

\* The largest size is accepted.
C34_Witness ==
    /\ arg_src = <<"1", "6", "3", "8", "4">>
    /\ arg_ret = [kind |-> "Ok", value |-> 16384]

====
